---- MODULE Spec2Model ----
(***************************************************************************)
(* Action recorder: the content script (src/content.js), seen as a state   *)
(* machine driven by DOM events and extension commands, together with the  *)
(* pure locator / context functions it calls.                              *)
(*                                                                         *)
(* src/content.js holds two variants of the content script, one after the *)
(* other (lines 4-1002 and 1007-2272).  `variant` says which one is the   *)
(* running script.                                                         *)
(***************************************************************************)
EXTENDS Integers, Sequences, FiniteSets, TLC

\* ------------------------------------------------------------------ bounds
MaxWindows == 1         \* the clock runs over this many dedup windows
MaxAttrs == 2           \* locator attributes present on the target (SpecXPath)
MaxShadowDepth == 3     \* nesting of shadow roots (SpecShadow)
MaxFrameDepth == 11     \* nesting of frames (SpecFrames)
MaxStarts == 1          \* Recordings the service worker creates (SpecBackground)
MaxActions == 2         \* elements of one actions array (SpecBackground)
MaxClock == 1           \* milliseconds that pass in the service worker (SpecBackground)
MaxNodes == 7           \* elements of a page that grows (SpecObserve)
MaxSends == 1           \* Actions whose delivery is followed (SpecSend)
MaxComplete == 2        \* ASSERTION_COMPLETE messages on their way (SpecTab)
MaxRestarts == 1        \* further Recordings of a restarted session (SpecRestart)
MaxJobs == 3            \* storage handlers of one run (SpecStorage)
MaxStream == 3          \* recordAction calls of one stream of events (SpecStream)
MaxObservers == 12      \* MutationObservers alive at one time (SpecReinsert)
MaxLog == 3             \* commands and clicks of one run (SpecCancel)
MaxExport == 3          \* actions of an exported recording (SpecExport)

\* ------------------------------------------------------- program constants
DedupWindow == 300      \* (now - lastActionTime) < 300
LevelCap == 10          \* while (... && level < 10)
AriaMax == 50           \* ariaLabel.length < 50
TextMax == 40           \* text.length < 40
TextMax2 == 50          \* second variant: text.length < 50
AssertMax == 200        \* finalValue.slice(0, 200)

VARIABLES
  variant,          \* 1: first script of content.js, 2: second script
  dom,              \* the document: node -> [parent, tag, attrs, text, type, shadow]
  value,            \* node -> current .value of the element
  frames,           \* ancestry of the script's window, innermost level first
  isRecording, isAssertionMode, assertionType, pendingInput,
  lastAction, lastActionTime,
  listeners,        \* roots that carry the capture listeners
  now,              \* Date.now()
  ev,               \* the event or command handled by the last step
  out,              \* messages handed to chrome.runtime.sendMessage by the last step
  threw,            \* whether a listener of the last step ended with an exception
  checked,          \* the checkboxes that are checked
  lastSent,         \* history: the last ACTION_RECORDED sent, with its time
  calls,            \* history: the recordAction calls of the last step that reached
                    \* the dedup test, each with what it sent
  target, result,   \* input and output of the pure-function specifications
  observers,        \* roots whose MutationObserver is in shadowObservers, connected
  shadowObservers,  \* the observers themselves, in the order of their creation, each
                    \* by the root it observes (kept by SpecReinsert)
  panel,            \* the side panel: isRecording, recordedActions, and where its
                    \* start and stop requests are (kept by SpecPanel)
  wire,             \* the sendMessage promises of the script that are not settled
  background,       \* the service worker: isRecording, currentRecording, activeTabId
  heap,             \* the action arrays of the service worker, by reference
  storage,          \* chrome.storage.local 'recordings', newest first
  tasks,            \* the service worker's async handlers that wait at an await
  sealed,           \* history: the arrays of the Recordings that a stop has sealed
  tab               \* the rest of the tab: the content script of another frame, the
                    \* side panel's assertion hint, ASSERTION_COMPLETE messages on
                    \* their way, and (history) the assertions since the last command

bgvars == <<background, heap, storage, tasks, sealed>>
vars == <<variant, dom, value, frames, isRecording, isAssertionMode, assertionType,
          pendingInput, lastAction, lastActionTime, listeners, now, ev, out, threw,
          checked, lastSent, calls, target, result, observers, wire, tab, shadowObservers, panel,
          bgvars>>

\* ------------------------------------------------------------------- DOM
DOC == 0                          \* the document node
SR(h) == 0 - h                    \* the shadow root hosted by element h
Nodes == DOMAIN dom               \* the elements, in document order
DocumentElement == 1              \* document.documentElement
NoNode == 0                       \* null element

IsShadowRoot(r) == r < 0
HostOf(r) == 0 - r
ParentNode(e) == dom[e].parent
TagName(e) == dom[e].tag
Attr(e, a) == dom[e].attrs[a]
ElemId(e) == Attr(e, "id")
Children(p) == {c \in Nodes : ParentNode(c) = p}

\* the text of a set of sibling nodes, in document order
RECURSIVE TextOf(_)
TextOf(S) ==
  IF S = {} THEN ""
  ELSE LET c == CHOOSE x \in S : \A y \in S : x <= y
       IN dom[c].text \o TextOf(Children(c)) \o TextOf(S \ {c})
\* (element.textContent || '').trim(): the element's own text, then its children's
TextContent(e) == TextOf({e})

TestAttrs1 == <<"data-testid", "data-test-id", "data-cy", "data-test",
                "data-automation-id", "data-e2e">>
TestAttrs2 == <<"data-testid", "data-test-id", "data-cy", "data-test",
                "data-automation-id">>
AttrNames == {"id", "data-testid", "data-test-id", "data-cy", "data-test",
              "data-automation-id", "data-e2e", "name", "aria-label", "placeholder"}
NoAttrs == [a \in AttrNames |-> ""]

\* element.shadowRoot: the open shadow root of e, or null
OpenShadowRoot(e) == IF dom[e].shadow = "open" THEN SR(e) ELSE NoNode

\* element.getRootNode(): the document or the shadow root that holds e
RECURSIVE GetRootNode(_)
GetRootNode(e) ==
  IF ParentNode(e) \in Nodes THEN GetRootNode(ParentNode(e)) ELSE ParentNode(e)

\* parent.children filtered by tagName, and indexOf(current) + 1
SameTagSiblings(e) ==
  {c \in Nodes : ParentNode(c) = ParentNode(e) /\ TagName(c) = TagName(e)}
SiblingIndex(e) == Cardinality({c \in SameTagSiblings(e) : c <= e})

\* the strings of the model that the id pattern /^(ember|react|ng-|:|[0-9])/ matches
FrameworkIds == {"ember12", "react-1", "ng-app", ":r1:"}
DigitIds == {"1st"}
MatchesIdPattern(v, id) ==
  id \in FrameworkIds \/ (v = 1 /\ id \in DigitIds)

\* the strings of the model that hold a double quote, a line break, two blanks
QuotedStrings == {"say \"hi\"", "it's \"ok\"", "it\\'s \"ok\""}
BothQuotes == {"it's \"ok\""}
MultiLineStrings == {"Line1\nLine2"}
NormalizeSpace(s) == IF s = "Buy  now" THEN "Buy now" ELSE s

\* --------------------------------------------------------------- XPath
\* A locator expression, kept structured:
\*   attr: //tag[@attr="val"]        text: //tag[normalize-space()="val"]
\*   rel : //tag[@id="val"]/s1/s2... (anchored) or //s1/s2/... (tag = "")
\*   full: /s1/s2/...                null: no locator
\* a step is <<tag, index>>, index 0 when the step carries no [index].
XP(kind, tag, attr, val, steps) ==
  [kind |-> kind, tag |-> tag, attr |-> attr, val |-> val, steps |-> steps]
NullXP == XP("null", "", "", "", <<>>)

\* only a string holding both kinds of quote is changed: ' becomes \\'
escapeXPathString(str) == IF str \in BothQuotes THEN "it\\'s \"ok\"" ELSE str

\* the nodes of the document tree proper (XPath does not enter shadow trees)
InDocument(e) == GetRootNode(e) = DOC
TagMatch(t, e) == t = "*" \/ TagName(e) = t
StepMatch(step, e) ==
  TagName(e) = step[1] /\ (step[2] = 0 \/ SiblingIndex(e) = step[2])

RECURSIVE ChildSteps(_, _)
ChildSteps(S, steps) ==
  IF steps = <<>> THEN S
  ELSE ChildSteps({c \in Nodes : ParentNode(c) \in S /\ StepMatch(Head(steps), c)},
                  Tail(steps))

\* doc.evaluate throws on an expression that is not well formed
EvaluateThrows(xp) ==
  \/ xp.val \in QuotedStrings
  \/ xp.kind = "rel" /\ xp.tag = "" /\ xp.steps = <<>>
  \/ xp.kind = "null"

\* doc.evaluate(xpath, doc, ...): the set of nodes selected in the document
Evaluate(xp) ==
  LET light == {e \in Nodes : InDocument(e)} IN
  CASE xp.kind = "attr" ->
         {e \in light : TagMatch(xp.tag, e) /\ Attr(e, xp.attr) = xp.val}
    [] xp.kind = "text" ->
         {e \in light : TagMatch(xp.tag, e) /\ NormalizeSpace(TextContent(e)) = xp.val}
    [] xp.kind = "rel" /\ xp.tag # "" ->
         ChildSteps({e \in light : TagMatch(xp.tag, e) /\ ElemId(e) = xp.val}, xp.steps)
    [] xp.kind = "rel" /\ xp.tag = "" /\ xp.steps # <<>> ->
         ChildSteps({e \in light : StepMatch(Head(xp.steps), e)}, Tail(xp.steps))
    [] xp.kind = "full" ->
         ChildSteps({e \in light : ParentNode(e) = DOC /\ StepMatch(Head(xp.steps), e)},
                    Tail(xp.steps))
    [] OTHER -> {}

isUniqueXPath(xp, e) == ~EvaluateThrows(xp) /\ Evaluate(xp) = {e}

\* element.name and element.placeholder are properties of form controls only
NameTags == {"input", "button", "select", "textarea", "iframe", "a"}
PlaceholderTags == {"input", "textarea"}
NameProp(e) == IF TagName(e) \in NameTags THEN Attr(e, "name") ELSE ""
PlaceholderProp(e) == IF TagName(e) \in PlaceholderTags THEN Attr(e, "placeholder") ELSE ""

\* Build XPath relative to nearest ancestor with ID: the while loop, from `current`
\* with the parts collected so far
RECURSIVE RelativeWalk(_, _, _, _)
RelativeWalk(v, element, current, parts) ==
  IF current \notin Nodes \/ current = DocumentElement
  THEN XP("rel", "", "", "", parts)
  ELSE IF ElemId(current) # "" /\ current # element /\ ~MatchesIdPattern(v, ElemId(current))
  THEN XP("rel", IF v = 1 THEN TagName(current) ELSE "*", "id", ElemId(current), parts)
  ELSE LET part == <<TagName(current),
                     IF Cardinality(SameTagSiblings(current)) > 1
                     THEN SiblingIndex(current) ELSE 0>>
           parts2 == <<part>> \o parts
       IN IF IsShadowRoot(ParentNode(current))
          THEN XP("rel", "", "", "", parts2)
          ELSE RelativeWalk(v, element, ParentNode(current), parts2)

buildRelativeXPath(v, element) == RelativeWalk(v, element, element, <<>>)

\* the candidates of generateXPath in the order the code tries them; an absent
\* candidate is NullXP
\* an id candidate that matches any tag
IdCandidateAny(v, e) ==
  IF ElemId(e) # "" /\ ~MatchesIdPattern(v, ElemId(e))
  THEN XP("attr", "*", "id", ElemId(e), <<>>)
  ELSE NullXP
IdCandidate(v, e) ==
  IF ElemId(e) # "" /\ ~MatchesIdPattern(v, ElemId(e))
  THEN XP("attr", IF v = 1 THEN TagName(e) ELSE "*", "id", ElemId(e), <<>>)
  ELSE NullXP
TestAttrCandidate(v, e, attr) ==
  IF Attr(e, attr) # ""
  THEN XP("attr", IF v = 1 THEN TagName(e) ELSE "*", attr, Attr(e, attr), <<>>)
  ELSE NullXP
NameCandidate(v, e) ==
  IF NameProp(e) # "" THEN XP("attr", TagName(e), "name", NameProp(e), <<>>) ELSE NullXP
AriaCandidate(v, e) ==
  IF Attr(e, "aria-label") # "" /\ (v = 2 \/ Len(Attr(e, "aria-label")) < AriaMax)
  THEN XP("attr", IF v = 1 THEN TagName(e) ELSE "*", "aria-label",
          IF v = 1 THEN escapeXPathString(Attr(e, "aria-label")) ELSE Attr(e, "aria-label"),
          <<>>)
  ELSE NullXP
TextCandidate(v, e) ==
  IF /\ TagName(e) \in {"button", "a"}
     /\ TextContent(e) # ""
     /\ Len(TextContent(e)) < (IF v = 1 THEN TextMax ELSE TextMax2)
     /\ (v = 2 \/ TextContent(e) \notin MultiLineStrings)
  THEN XP("text", TagName(e), "",
          IF v = 1 THEN escapeXPathString(TextContent(e)) ELSE TextContent(e), <<>>)
  ELSE NullXP
PlaceholderCandidate(v, e) ==
  IF v = 1 /\ PlaceholderProp(e) # ""
  THEN XP("attr", TagName(e), "placeholder", escapeXPathString(PlaceholderProp(e)), <<>>)
  ELSE NullXP

\* the candidates with aria-label tried before name
CandidatesSwapped(v, e) ==
  <<IdCandidate(v, e)>>
  \o [i \in 1..Len(IF v = 1 THEN TestAttrs1 ELSE TestAttrs2) |->
        TestAttrCandidate(v, e, (IF v = 1 THEN TestAttrs1 ELSE TestAttrs2)[i])]
  \o <<AriaCandidate(v, e), NameCandidate(v, e), TextCandidate(v, e),
       PlaceholderCandidate(v, e)>>
Candidates(v, e) ==
  <<IdCandidate(v, e)>>
  \o [i \in 1..Len(IF v = 1 THEN TestAttrs1 ELSE TestAttrs2) |->
        TestAttrCandidate(v, e, (IF v = 1 THEN TestAttrs1 ELSE TestAttrs2)[i])]
  \o <<NameCandidate(v, e), AriaCandidate(v, e), TextCandidate(v, e),
       PlaceholderCandidate(v, e)>>

\* a generateXPath that tries the id only on its first call
generateXPathOnce(v, element) ==
  IF element \notin Nodes THEN NullXP
  ELSE IF /\ ev.kind = "load" /\ IdCandidate(v, element) # NullXP
          /\ isUniqueXPath(IdCandidate(v, element), element)
  THEN IdCandidate(v, element)
  ELSE buildRelativeXPath(v, element)

\* Generate the best XPath for an element: the first candidate that is present and
\* unique, else the relative path
generateXPath(v, element) ==
  IF element \notin Nodes THEN NullXP
  ELSE LET c == Candidates(v, element)
           ok == {i \in 1..Len(c) : c[i] # NullXP /\ isUniqueXPath(c[i], element)}
       IN IF ok # {} THEN c[CHOOSE i \in ok : \A j \in ok : i <= j]
          ELSE buildRelativeXPath(v, element)

\* Generate full absolute XPath (fallback): every step indexed, up to the root
RECURSIVE FullWalk(_, _)
FullWalk(current, parts) ==
  IF current \notin Nodes THEN parts
  ELSE LET parts2 == <<<<TagName(current), SiblingIndex(current)>>>> \o parts
       IN IF IsShadowRoot(ParentNode(current)) THEN parts2
          ELSE FullWalk(ParentNode(current), parts2)
generateFullXPath(element) == XP("full", "", "", "", FullWalk(element, <<>>))

\* Generate XPath within shadow root: stops at the first element that has an id
RECURSIVE InnerWalk(_, _)
InnerWalk(current, parts) ==
  IF current \notin Nodes THEN parts
  ELSE IF ElemId(current) # "" THEN <<<<"*[@id=" \o ElemId(current) \o "]", 0>>>> \o parts
  ELSE InnerWalk(ParentNode(current),
                 <<<<TagName(current),
                     IF Cardinality(SameTagSiblings(current)) > 1
                     THEN SiblingIndex(current) ELSE 0>>>> \o parts)
generateInnerXPath(element, shadowRoot) == InnerWalk(element, <<>>)

\* a walk that appends each host's descriptor instead of putting it in front
RECURSIVE ShadowWalkPush(_, _, _)
ShadowWalkPush(v, current, path) ==
  LET root == GetRootNode(current) IN
  IF ~IsShadowRoot(root) THEN path
  ELSE LET host == HostOf(root) IN
       ShadowWalkPush(v, host,
          Append(path, [hostXPath |-> generateXPath(v, host),
                        hostTag |-> TagName(host),
                        hostId |-> ElemId(host),
                        innerXPath |-> generateInnerXPath(current, root),
                        shadowMode |-> dom[host].shadow]))
\* Get shadow DOM path if element is inside shadow DOM: the while loop from `current`
RECURSIVE ShadowWalk(_, _, _)
ShadowWalk(v, current, path) ==
  LET root == GetRootNode(current) IN
  IF ~IsShadowRoot(root) THEN path
  ELSE LET host == HostOf(root) IN
       ShadowWalk(v, host,
          <<[hostXPath |-> generateXPath(v, host),
             hostTag |-> TagName(host),
             hostId |-> ElemId(host),
             innerXPath |-> generateInnerXPath(current, root),
             shadowMode |-> dom[host].shadow]>> \o path)

\* null is the empty sequence
getShadowPath(v, element) ==
  IF element \notin Nodes THEN <<>>
  ELSE IF ~IsShadowRoot(GetRootNode(element)) THEN <<>>
  ELSE ShadowWalk(v, element, <<>>)

\* ------------------------------------------------------------ values
Undefined == "<undefined>"        \* a property the element does not have
Null == "<null>"
Mask == "****"

\* li, progress and meter have a numeric .value
NumericTags == {"li", "progress", "meter"}
IsNumber(e) == e \in Nodes /\ TagName(e) \in NumericTags
\* JavaScript truthiness of e.value
Truthy(e) == value[e] \notin {Undefined, ""} /\ ~(IsNumber(e) /\ value[e] = "0")
\* tag names of the model that hold a hyphen (custom elements)
HyphenTags == {"x-host", "x-a", "x-b", "x-c", "x-d", "x-e"}

\* root.querySelector: the first element below root, in tree order, that P picks
InTree(root) == {n \in Nodes : GetRootNode(n) = root /\ root # DOC} 
RECURSIVE IsDescendant(_, _)
IsDescendant(n, a) ==
  ParentNode(n) = a \/ (ParentNode(n) \in Nodes /\ IsDescendant(ParentNode(n), a))
First(S) == IF S = {} THEN NoNode ELSE CHOOSE x \in S : \A y \in S : x <= y
IsEditable(e) == dom[e].editable

\* Get value from element, handling shadow DOM inputs.  A value is [s, num]:
\* the string shown and whether it is a JavaScript number.
Val(s, num) == [s |-> s, num |-> num]
ShadowInnerValue(e, tags) ==
  LET inner == First({n \in InTree(SR(e)) : TagName(n) \in tags}) IN
  IF inner # NoNode /\ Truthy(inner) THEN inner ELSE NoNode
getElementValue(v, e) ==
  IF e \notin Nodes THEN Val(Null, FALSE)
  ELSE IF value[e] # Undefined /\ value[e] # "" THEN Val(value[e], IsNumber(e))
  ELSE LET sh == IF OpenShadowRoot(e) = NoNode THEN NoNode
                 ELSE IF ShadowInnerValue(e, {"input"}) # NoNode
                      THEN ShadowInnerValue(e, {"input"})
                      ELSE ShadowInnerValue(e, {"textarea"})
           li == IF TagName(e) \in HyphenTags
                 THEN First({n \in Nodes : IsDescendant(n, e)
                                          /\ TagName(n) \in {"input", "textarea"}})
                 ELSE NoNode
       IN IF sh # NoNode THEN Val(value[sh], FALSE)
          ELSE IF li # NoNode /\ Truthy(li) THEN Val(value[li], FALSE)
          ELSE IF IsEditable(e) THEN Val(TextContent(e), FALSE)
          ELSE IF Truthy(e) THEN Val(value[e], IsNumber(e)) ELSE Val(Null, FALSE)

\* Get text content from shadow DOM element
getShadowTextContent(e) ==
  IF e \notin Nodes THEN Val("", FALSE)
  ELSE IF value[e] # Undefined /\ value[e] # "" THEN Val(value[e], IsNumber(e))
  ELSE LET input == IF OpenShadowRoot(e) = NoNode THEN NoNode
                    ELSE First({n \in InTree(SR(e)) :
                                  TagName(n) \in {"input", "textarea"} \/ IsEditable(n)})
           shadowText == IF OpenShadowRoot(e) = NoNode THEN ""
                         ELSE TextOf(Children(SR(e)))
           nested == IF TagName(e) \in HyphenTags
                     THEN First({n \in Nodes : IsDescendant(n, e)
                                              /\ TagName(n) \in {"input", "textarea"}})
                     ELSE NoNode
       IN IF input # NoNode /\ Truthy(input) THEN Val(value[input], FALSE)
          ELSE IF input # NoNode /\ TextContent(input) # "" THEN Val(TextContent(input), FALSE)
          ELSE IF shadowText # "" THEN Val(shadowText, FALSE)
          ELSE IF nested # NoNode /\ Truthy(nested) THEN Val(value[nested], FALSE)
          ELSE Val(TextContent(e), FALSE)

\* Get the inner element from shadow DOM for assertions: the first interactive
\* element inside the shadow root, by selector priority
getShadowInnerElement(e) ==
  IF e \notin Nodes \/ OpenShadowRoot(e) = NoNode THEN e
  ELSE LET pick(P(_)) == First({n \in InTree(SR(e)) : P(n)})
           isInput(n) == TagName(n) = "input" /\ dom[n].type # "hidden"
           isTextarea(n) == TagName(n) = "textarea"
           isSelect(n) == TagName(n) = "select"
           isButton(n) == TagName(n) = "button"
       IN IF pick(isInput) # NoNode THEN pick(isInput)
          ELSE IF pick(isTextarea) # NoNode THEN pick(isTextarea)
          ELSE IF pick(IsEditable) # NoNode THEN pick(IsEditable)
          ELSE IF pick(isSelect) # NoNode THEN pick(isSelect)
          ELSE IF pick(isButton) # NoNode THEN pick(isButton)
          ELSE e

\* Get element information: the snapshot sent with the action
getElementInfo(v, e) ==
  [tag |-> TagName(e),
   type |-> dom[e].type,
   id |-> ElemId(e),
   name |-> NameProp(e),
   text |-> TextContent(e),
   value |-> getElementValue(v, e).s,
   inShadowDOM |-> IsShadowRoot(GetRootNode(e)),
   inIframe |-> frames # <<>>]

\* the description, as the pieces the template puts together
DescTarget(v, e) ==
  LET text == TextContent(e)
      q(s) == IF v = 1 THEN s ELSE "\"" \o s \o "\""
  IN IF Len(text) > 0 /\ Len(text) < 30 THEN q(text)
     ELSE IF Attr(e, "aria-label") # "" THEN q(Attr(e, "aria-label"))
     ELSE IF PlaceholderProp(e) # "" THEN q(PlaceholderProp(e)) \o " field"
     ELSE IF NameProp(e) # "" THEN q(NameProp(e)) \o " field"
     ELSE IF ElemId(e) # "" THEN "#" \o ElemId(e)
     ELSE TagName(e)
generateDescription(v, type, e, dataValue) ==
  LET val == IF dataValue \notin {"", Undefined} THEN dataValue
             ELSE IF Truthy(e) THEN value[e] ELSE ""
  IN CASE type = "input" ->
            <<IF v = 1 THEN "" ELSE "Typed ", IF dom[e].type = "password" THEN Mask ELSE val,
              IF v = 1 THEN " on " ELSE " in ", DescTarget(v, e)>>
       [] type = "select" ->
            <<IF v = 1 THEN "" ELSE "Selected ", val,
              IF v = 1 THEN " from " ELSE " from dropdown ", DescTarget(v, e)>>
       [] OTHER -> <<type, "", "", DescTarget(v, e)>>

\* ------------------------------------------------------------ frames
\* frames[i] describes the frame element that holds the window i-1 levels above the
\* script's own window: whether the parent document can be read from the script
\* (access), whether the frame element is found among the parent's iframe/frame
\* elements and where (found, index), and its name, id and src.
NoFrameMeta == [name |-> Null, id |-> Null, src |-> Null]
Descriptor(crossOrigin, message, index, name, id, src) ==
  [crossOrigin |-> crossOrigin, message |-> message, index |-> index,
   name |-> name, id |-> id, src |-> src]

\* the descriptor put in front when reading parent.document throws: the first
\* script gives the level as index, the second gives no index (-1)
Boundary(v, level) ==
  IF v = 1 THEN Descriptor(TRUE, "Cross-origin boundary", level, Null, Null, Null)
  ELSE Descriptor(TRUE, "Cross-origin frame boundary", -1, Null, Null, Null)
\* the descriptor of a level whose frame element is not among the parent's
\* iframe/frame elements: the first script marks it crossOrigin; the second, with
\* no frame identifier received, describes it from currentWindow.frameElement
NotFound(v, level, f) ==
  IF v = 1 THEN Descriptor(TRUE, "", level, Null, Null, Null)
  ELSE Descriptor(FALSE, "", level, f.name, f.id, f.src)

\* a walk that appends each level's descriptor instead of putting it in front
RECURSIVE FrameWalkPush(_, _, _)
FrameWalkPush(v, level, path) ==
  IF level >= Len(frames) \/ (v = 1 /\ level >= LevelCap) THEN path
  ELSE LET f == frames[level + 1] IN
       IF f.access = "blocked" THEN Append(path, Boundary(v, level))
       ELSE IF f.found
       THEN FrameWalkPush(v, level + 1,
                          Append(path, Descriptor(FALSE, "", f.index, f.name, f.id, f.src)))
       ELSE FrameWalkPush(v, level + 1, Append(path, NotFound(v, level, f)))
\* a walk that goes on above a level whose parent document cannot be read
RECURSIVE FrameWalkOn(_, _, _)
FrameWalkOn(v, level, path) ==
  IF level >= Len(frames) \/ (v = 1 /\ level >= LevelCap) THEN path
  ELSE LET f == frames[level + 1] IN
       IF f.access = "blocked" THEN FrameWalkOn(v, level + 1, <<Boundary(v, level)>> \o path)
       ELSE IF f.found
       THEN FrameWalkOn(v, level + 1,
                        <<Descriptor(FALSE, "", f.index, f.name, f.id, f.src)>> \o path)
       ELSE FrameWalkOn(v, level + 1, <<NotFound(v, level, f)>> \o path)
\* Get iframe path from current window to top: the while loop at `level`
RECURSIVE FrameWalk(_, _, _)
FrameWalk(v, level, path) ==
  IF level >= Len(frames) \/ (v = 1 /\ level >= LevelCap) THEN path
  ELSE LET f == frames[level + 1] IN
       IF f.access = "blocked" THEN <<Boundary(v, level)>> \o path
       ELSE IF f.found
       THEN FrameWalk(v, level + 1,
                      <<Descriptor(FALSE, "", f.index, f.name, f.id, f.src)>> \o path)
       ELSE FrameWalk(v, level + 1, <<NotFound(v, level, f)>> \o path)
\* null is the empty sequence
getIframePath(v) == IF frames = <<>> THEN <<>> ELSE FrameWalk(v, 0, <<>>)

\* Get frame index for Selenium's switchTo().frame(index); -1 is null
getFrameIndex ==
  IF frames = <<>> THEN -1
  ELSE IF frames[1].access = "ok" /\ frames[1].found THEN frames[1].index ELSE -1

\* ------------------------------------------------- the content script
\* The script's mutable state while the listeners of one event run.
NoLast == [type |-> "none", xpath |-> NullXP]
CS == [isRecording |-> isRecording, isAssertionMode |-> isAssertionMode,
       assertionType |-> assertionType, pendingInput |-> pendingInput,
       lastAction |-> lastAction, lastActionTime |-> lastActionTime,
       out |-> <<>>, threw |-> FALSE, lastSent |-> lastSent, calls |-> <<>>]

NoAction == [type |-> "none"]
Msg(type, action) == [type |-> type, action |-> action]
NoSent == [type |-> "none", xpath |-> NullXP, time |-> 0]
sendMessage(s, msg) ==
  [s EXCEPT !.out = Append(@, msg),
            !.lastSent = IF msg.type = "ACTION_RECORDED"
                         THEN [type |-> msg.action.type, xpath |-> msg.action.xpath,
                               time |-> now]
                         ELSE @]

\* an exitAssertionMode that leaves the mode as it is
exitAssertionModeKept(s) == s
exitAssertionMode(s) == [s EXCEPT !.isAssertionMode = FALSE]
enterAssertionMode(s, type) ==
  [s EXCEPT !.isAssertionMode = TRUE,
            !.assertionType = IF variant = 1
                              THEN (IF type = Undefined THEN "element" ELSE type)
                              ELSE @]

\* a slice that keeps one character more
SliceOneMore(str, n) == IF Len(str) <= n + 1 THEN str ELSE SubSeq(str, 1, n + 1)
\* str.slice(0, n): the first n characters
Slice(str, n) == IF Len(str) <= n THEN str ELSE SubSeq(str, 1, n)

\* the locator fields of an Action: recordAction and recordAssertion fill them by
\* the same calls on the element
Capture(v, element) ==
  [xpath |-> generateXPath(v, element),
   fullXPath |-> generateFullXPath(element),
   element |-> getElementInfo(v, element),
   iframe |-> getIframePath(v),
   frameIndex |-> getFrameIndex,
   shadow |-> getShadowPath(v, element)]

\* recordAssertion of the first script; c is Capture(1, element)
recordAssertion1(s, element, c) ==
  IF ~s.isRecording \/ element = NoNode THEN s
  ELSE LET targetElement == getShadowInnerElement(element)
           own(e) == IF Truthy(e) THEN Val(value[e], IsNumber(e))
                     ELSE Val(TextContent(e), FALSE)
           textValue == IF c.shadow # <<>> THEN getShadowTextContent(element)
                        ELSE own(targetElement)
           shadowInnerValue == IF c.shadow # <<>> /\ targetElement # element
                               THEN own(targetElement) ELSE Val("", FALSE)
           finalValue == IF shadowInnerValue.s # "" THEN shadowInnerValue ELSE textValue
       IN IF s.assertionType = "text" /\ finalValue.num
          THEN [s EXCEPT !.threw = TRUE]             \* a number has no slice()
          ELSE LET action ==
                     [type |-> "assertion",
                      assertionType |-> s.assertionType,
                      xpath |-> c.xpath,
                      fullXPath |-> c.fullXPath,
                      element |-> c.element,
                      iframe |-> c.iframe,
                      frameIndex |-> c.frameIndex,
                      shadow |-> c.shadow,
                      textContent |-> IF s.assertionType = "text"
                                      THEN Slice(finalValue.s, AssertMax) ELSE Null,
                      expectedValue |-> IF s.assertionType = "text"
                                        THEN Slice(finalValue.s, AssertMax) ELSE Null,
                      description |-> generateDescription(1, "assertion", element, Undefined),
                      value |-> Undefined, key |-> Undefined, checked |-> Undefined,
                      node |-> element]
               IN sendMessage(exitAssertionMode(sendMessage(s, Msg("ACTION_RECORDED", action))),
                              Msg("ASSERTION_COMPLETE", NoAction))

\* recordAssertion of the second script; c is Capture(2, element)
recordAssertion2(s, element, c) ==
  IF ~s.isRecording \/ element = NoNode THEN s
  ELSE LET text == TextContent(element)
           val == IF Truthy(element) THEN value[element]
                  ELSE IF text # "" THEN text ELSE Null
           action ==
             [type |-> "assertion",
              assertionType |-> "exists",
              xpath |-> c.xpath,
              fullXPath |-> c.fullXPath,
              element |-> c.element,
              iframe |-> c.iframe,
              frameIndex |-> -1,
              shadow |-> c.shadow,
              textContent |-> val,
              expectedValue |-> val,
              description |-> generateDescription(2, "assertion", element, Undefined),
              value |-> Undefined, key |-> Undefined, checked |-> Undefined,
              node |-> element]
       IN sendMessage(exitAssertionMode(sendMessage(s, Msg("ACTION_RECORDED", action))),
                      Msg("ASSERTION_COMPLETE", NoAction))

\* a recordAssertion that signals completion once more
recordAssertionTwice(s, element, c) ==
  sendMessage(IF variant = 1 THEN recordAssertion1(s, element, c)
              ELSE recordAssertion2(s, element, c),
              Msg("ASSERTION_COMPLETE", NoAction))
recordAssertion(s, element, c) ==
  IF variant = 1 THEN recordAssertion1(s, element, c) ELSE recordAssertion2(s, element, c)

\* a dedup test that also drops at exactly the window's length
IsDuplicateInclusive(s, type, xpath) ==
  /\ s.lastAction # NoLast
  /\ s.lastAction.type = type
  /\ s.lastAction.xpath = xpath
  /\ (now - s.lastActionTime) <= DedupWindow

\* a dedup test that also drops an event whose locator is the unchecked fallback
IsDuplicateOrFallback(s, type, xpath) ==
  \/ xpath.kind = "rel"
  \/ /\ s.lastAction # NoLast
     /\ s.lastAction.type = type
     /\ s.lastAction.xpath = xpath
     /\ (now - s.lastActionTime) < DedupWindow

\* a dedup test whose window starts again at every event it dropped
IsDuplicateSliding(s, type, xpath) ==
  /\ s.lastAction # NoLast
  /\ s.lastAction.type = type
  /\ s.lastAction.xpath = xpath
  /\ \/ (now - s.lastActionTime) < DedupWindow
     \/ /\ wire # <<>>
        /\ wire[Len(wire)].sent = 0
        /\ wire[Len(wire)].type = type
        /\ wire[Len(wire)].xpath = xpath
        /\ (now - wire[Len(wire)].time) < DedupWindow

\* the dedup test of recordAction
IsDuplicate(s, type, xpath) ==
  /\ s.lastAction # NoLast
  /\ s.lastAction.type = type
  /\ s.lastAction.xpath = xpath
  /\ (now - s.lastActionTime) < DedupWindow

\* recordAction(type, element, data), below the assertion branch: the try block;
\* c is Capture(variant, element)
RecordPlain(s, type, element, data, c) ==
  IF IsDuplicate(s, type, c.xpath) THEN s
  ELSE LET action ==
             [type |-> type,
              assertionType |-> Undefined,
              xpath |-> c.xpath,
              fullXPath |-> c.fullXPath,
              element |-> c.element,
              iframe |-> c.iframe,
              frameIndex |-> c.frameIndex,
              shadow |-> c.shadow,
              textContent |-> Undefined,
              expectedValue |-> Undefined,
              description |-> generateDescription(variant, type, element, data.value),
              value |-> IF variant = 1 /\ type = "input" /\ data.value \in {"", Undefined}
                        THEN getShadowTextContent(element).s
                        ELSE data.value,
              key |-> data.key, checked |-> data.checked,
              node |-> element]
       IN sendMessage([s EXCEPT !.lastAction = [type |-> type, xpath |-> c.xpath],
                                !.lastActionTime = now],
                      Msg("ACTION_RECORDED", action))

\* recordAction(type, element, data); data is [value, key, checked].  A call that
\* reaches the dedup test is noted in the history with what it sent.
recordAction(s, type, element, data) ==
  IF ~s.isRecording \/ element = NoNode THEN s
  ELSE LET c == Capture(variant, element) IN
       IF s.isAssertionMode /\ type = "click" THEN recordAssertion(s, element, c)
       ELSE LET r == RecordPlain(s, type, element, data, c) IN
            [r EXCEPT !.calls = Append(@, [type |-> type,
                                           xpath |-> c.xpath,
                                           time |-> now,
                                           prev |-> s.lastSent,
                                           sent |-> Len(r.out) - Len(s.out),
                                           same |-> [r EXCEPT !.out = s.out] = s])]

Data(val, key, chk) == [value |-> val, key |-> key, checked |-> chk]
NoData == Data(Undefined, Undefined, Undefined)

\* ---- the statements of a handler, in order: a call of recordAction, a call of
\* flushPendingInput, or an assignment to pendingInput
RecordCall(type, element, data) ==
  [op |-> "recordAction", type |-> type, element |-> element, data |-> data]
FlushCall == [op |-> "flushPendingInput", type |-> "", element |-> NoNode, data |-> NoData]
SetPending(element) ==
  [op |-> "pendingInput", type |-> "", element |-> element, data |-> NoData]

\* flushPendingInput(): records the pending field's value, masked for a password,
\* then clears the buffer
flushPendingInput(s) ==
  IF s.pendingInput = NoNode THEN <<>>
  ELSE LET element == s.pendingInput
           got == getElementValue(variant, element).s
           val == IF dom[element].type = "password" THEN Mask
                  ELSE IF got = Null THEN "" ELSE got
       IN <<RecordCall("input", element, Data(val, Undefined, Undefined)),
            SetPending(NoNode)>>

\* ---- event handlers: each takes the script state and the event's target, and
\* gives the statements it runs
handleClick(s, element) ==
  IF ~s.isRecording THEN <<>>
  ELSE <<FlushCall>>
       \o (IF element = NoNode THEN <<>> ELSE <<RecordCall("click", element, NoData)>>)

handleInput(s, element) ==
  IF ~s.isRecording THEN <<>>
  ELSE IF element = NoNode THEN <<>>
  ELSE IF TagName(element) \notin {"input", "textarea"} THEN <<>>
  ELSE <<SetPending(element)>>

handleChange(s, element, chk) ==
  IF ~s.isRecording THEN <<>>
  ELSE IF element = NoNode THEN <<>>
  ELSE IF TagName(element) = "select"
  THEN <<FlushCall, RecordCall("select", element, Data(value[element], Undefined, Undefined))>>
  ELSE IF dom[element].type \in {"checkbox", "radio"}
  THEN <<FlushCall, RecordCall("check", element, Data(Undefined, Undefined, chk))>>
  ELSE <<>>

handleKeydown(s, element, key) ==
  IF ~s.isRecording THEN <<>>
  ELSE IF key = "Enter"
  THEN <<FlushCall>>
       \o (IF element = NoNode THEN <<>>
           ELSE <<RecordCall("keypress", element, Data(Undefined, "Enter", Undefined))>>)
  ELSE IF key = "Tab" THEN <<FlushCall>>
  ELSE <<>>

handleFocusOut(s, element) ==
  IF ~s.isRecording THEN <<>>
  ELSE IF s.pendingInput # NoNode /\ s.pendingInput = element THEN <<FlushCall>>
  ELSE <<>>

\* run the statements, each on the state the one before it left
RECURSIVE Run(_, _)
Run(s, todo) ==
  IF todo = <<>> THEN s
  ELSE LET c == Head(todo) IN
       CASE c.op = "recordAction" ->
              Run(recordAction(s, c.type, c.element, c.data), Tail(todo))
         [] c.op = "flushPendingInput" ->
              Run(s, flushPendingInput(s) \o Tail(todo))
         [] c.op = "pendingInput" ->
              Run([s EXCEPT !.pendingInput = c.element], Tail(todo))

\* ---- dispatch of one DOM event
\* The roots on the event's path from the document inwards, each with the target a
\* listener on that root sees (the host, for a target inside a shadow tree).
RECURSIVE ComposedPath(_)
ComposedPath(e) ==
  LET root == GetRootNode(e) IN
  IF IsShadowRoot(root)
  THEN Append(ComposedPath(HostOf(root)), [root |-> root, target |-> e])
  ELSE <<[root |-> root, target |-> e]>>
\* a change event is not composed: it stays inside the target's own tree
OwnTreePath(e) == <<[root |-> GetRootNode(e), target |-> e]>>

\* the listener that attachListeners registers for the event kind
Handler(kind, s, element, arg) ==
  CASE kind = "click" -> handleClick(s, element)
    [] kind = "input" -> handleInput(s, element)
    [] kind = "change" -> handleChange(s, element, arg)
    [] kind = "keydown" -> handleKeydown(s, element, arg)
    [] kind = "focusout" -> handleFocusOut(s, element)

\* run the listener on every root of the path that carries the listeners
RECURSIVE RunListeners(_, _, _, _)
RunListeners(s, path, kind, arg) ==
  IF path = <<>> THEN s
  ELSE RunListeners(IF Head(path).root \in listeners
                    THEN Run(s, Handler(kind, s, Head(path).target, arg)) ELSE s,
                    Tail(path), kind, arg)

\* the open shadow roots a TreeWalker scan from `roots` reaches, nested ones included
RECURSIVE ShadowRootsBelow(_)
ShadowRootsBelow(roots) ==
  LET more == {SR(h) : h \in {n \in Nodes : dom[n].shadow = "open"
                                            /\ GetRootNode(n) \in roots}}
  IN IF more \subseteq roots THEN roots ELSE ShadowRootsBelow(roots \cup more)

\* whether any root on the path carries the listeners: if none does, the script
\* does not see the event
Heard(path) == \E i \in 1..Len(path) : path[i].root \in listeners
script == <<isRecording, isAssertionMode, assertionType, pendingInput, lastAction,
            lastActionTime, out, threw, lastSent, calls, ev>>

\* ---- the steps
Event(kind, node, arg) == [kind |-> kind, node |-> node, arg |-> arg]
NoEvent == Event("none", NoNode, "")

\* the variables the script never writes
fixed == <<variant, dom, frames, target, result, wire, tab, shadowObservers, panel, bgvars>>

Commit(s, e) ==
  /\ isRecording' = s.isRecording
  /\ isAssertionMode' = s.isAssertionMode
  /\ assertionType' = s.assertionType
  /\ pendingInput' = s.pendingInput
  /\ lastAction' = s.lastAction
  /\ lastActionTime' = s.lastActionTime
  /\ out' = s.out
  /\ threw' = s.threw
  /\ lastSent' = s.lastSent
  /\ calls' = s.calls
  /\ ev' = e

\* the page's elements a user can act on
Inputs == {e \in Nodes : TagName(e) \in {"input", "textarea"}
                          /\ dom[e].type \notin {"checkbox", "radio"}}
Typed(e) == IF dom[e].type = "password" THEN {"pw1", "pw2"} ELSE {"", "abc"}
Clickable == {e \in Nodes : TagName(e) \notin {"html", "body", "ol"}}

\* START_RECORDING: startRecording()
StartRecording ==
  /\ IF isRecording
     THEN /\ Commit(CS, Event("START_RECORDING", NoNode, ""))
          /\ UNCHANGED <<listeners, observers>>
     ELSE /\ Commit([CS EXCEPT !.isRecording = TRUE,
                               !.pendingInput = IF variant = 2 THEN NoNode ELSE @],
                    Event("START_RECORDING", NoNode, ""))
          /\ listeners' = listeners \cup ShadowRootsBelow({DOC})
          /\ observers' = observers \cup ShadowRootsBelow({DOC})
  /\ UNCHANGED <<fixed, value, checked, now>>

\* STOP_RECORDING (and, in the first script, the __ACTION_RECORDER_STOP__ window
\* message): stopRecording()
StopRecording ==
  /\ IF ~isRecording
     THEN /\ Commit(CS, Event("STOP_RECORDING", NoNode, ""))
          /\ UNCHANGED <<listeners, observers>>
     ELSE /\ Commit(IF variant = 1
                    THEN [CS EXCEPT !.isRecording = FALSE, !.isAssertionMode = FALSE]
                    ELSE [Run(CS, <<FlushCall>>) EXCEPT !.isRecording = FALSE],
                    Event("STOP_RECORDING", NoNode, ""))
          /\ listeners' = listeners \ {DOC}
          /\ observers' = {}
  /\ UNCHANGED <<fixed, value, checked, now>>

\* ENTER_ASSERTION_MODE: enterAssertionMode(message.assertionType)
EnterAssertionMode ==
  /\ \E type \in {"element", "text", Undefined} :
       Commit(enterAssertionMode(CS, type), Event("ENTER_ASSERTION_MODE", NoNode, type))
  /\ UNCHANGED <<fixed, value, checked, now, listeners, observers>>

\* EXIT_ASSERTION_MODE: exitAssertionMode()
ExitAssertionMode ==
  /\ Commit(exitAssertionMode(CS), Event("EXIT_ASSERTION_MODE", NoNode, ""))
  /\ UNCHANGED <<fixed, value, checked, now, listeners, observers>>

\* GET_STATUS: sendResponse({ isRecording, isAssertionMode })
GetStatus ==
  /\ Commit(CS, Event("GET_STATUS", NoNode, ""))
  /\ UNCHANGED <<fixed, value, checked, now, listeners, observers>>

\* a click on element e
Click ==
  /\ \E e \in Clickable :
       /\ Heard(ComposedPath(e))
       /\ Commit(RunListeners(CS, ComposedPath(e), "click", ""), Event("click", e, ""))
  /\ UNCHANGED <<fixed, value, checked, now, listeners, observers>>

\* the user types into field e: its value changes and an input event is dispatched
Input ==
  /\ \E e \in Inputs : \E val \in Typed(e) :
       /\ value' = [value EXCEPT ![e] = val]
       /\ IF Heard(ComposedPath(e))
          THEN Commit(RunListeners(CS, ComposedPath(e), "input", ""), Event("input", e, ""))
          ELSE Commit(CS, NoEvent)
  /\ UNCHANGED <<fixed, checked, now, listeners, observers>>

\* a change event on e: a select takes another option, a checkbox is toggled, a
\* text field commits
Change ==
  /\ \E e \in {n \in Nodes : TagName(n) \in {"input", "textarea", "select"}} :
       LET toggles == dom[e].type \in {"checkbox", "radio"}
           nowChecked == IF ~toggles THEN Undefined
                         ELSE IF e \in checked THEN "false" ELSE "true"
       IN /\ checked' = IF ~toggles THEN checked
                        ELSE IF e \in checked THEN checked \ {e} ELSE checked \cup {e}
          /\ toggles \/ Heard(OwnTreePath(e))
          /\ IF Heard(OwnTreePath(e))
             THEN Commit(RunListeners(CS, OwnTreePath(e), "change", nowChecked),
                         Event("change", e, ""))
             ELSE Commit(CS, NoEvent)
  /\ UNCHANGED <<fixed, value, now, listeners, observers>>

\* a key goes down on e
Keydown ==
  /\ \E e \in Inputs : \E key \in {"Enter", "Tab"} :
       /\ Heard(ComposedPath(e))
       /\ Commit(RunListeners(CS, ComposedPath(e), "keydown", key), Event("keydown", e, key))
  /\ UNCHANGED <<fixed, value, checked, now, listeners, observers>>

\* e loses the focus
FocusOut ==
  /\ \E e \in Inputs :
       /\ Heard(ComposedPath(e))
       /\ Commit(RunListeners(CS, ComposedPath(e), "focusout", ""), Event("focusout", e, ""))
  /\ UNCHANGED <<fixed, value, checked, now, listeners, observers>>

\* time passes: Date.now() moves on to a later instant; the instants of the model
\* are the last millisecond inside and the first millisecond outside each window
TimePoints ==
  UNION {{k * DedupWindow - 1, k * DedupWindow} : k \in 1..MaxWindows}
Tick ==
  /\ \E t \in TimePoints : t > now /\ now' = t
  /\ Commit(CS, NoEvent)
  /\ UNCHANGED <<fixed, value, checked, listeners, observers>>

\* ------------------------------------------------- the service worker
\* src/background.js.  An async handler runs up to its next await in one step; the
\* step that follows it is the await settling.  Objects that the code shares by
\* reference are kept by reference: currentRecording.actions is an index of heap.
NoTab == 0                        \* activeTabId = null
NoId == -1                        \* the first currentRecording has no id
NoRec == [id |-> NoId, actions |-> 0, endTime |-> 0]
StartIdle == [pc |-> "idle", ref |-> 0, len |-> 0]
StopIdle == [pc |-> "idle", rec |-> NoRec]
contentvars == <<variant, dom, value, frames, isRecording, isAssertionMode, assertionType,
                 pendingInput, lastAction, lastActionTime, listeners, ev, out, threw,
                 checked, lastSent, calls, target, result, observers, wire, tab,
                 shadowObservers, panel>>

InitBackground ==
  /\ background = [isRecording |-> FALSE,
                   currentRecording |-> [id |-> NoId, actions |-> 1],
                   activeTabId |-> NoTab]
  /\ heap = << <<>> >>
  /\ storage = <<>>
  /\ tasks = [start |-> StartIdle, stop |-> StopIdle, store |-> <<>>]
  /\ sealed = {}

\* currentRecording.actions, and currentRecording.actions.push(action)
currentActions == heap[background.currentRecording.actions]
Pushed(action) == [heap EXCEPT ![background.currentRecording.actions] = Append(@, action)]
\* the entries of the arrays: what the handler builds from the message
Entry(type, auto) == [type |-> type, auto |-> auto]

\* START_RECORDING: startRecording(tabId, name) up to `await chrome.tabs.get(tabId)`.
\* The task notes the array that is current, and its length, when the command came.
BgStartRecording ==
  /\ tasks.start.pc = "idle"
  /\ \E tabId \in {1} :
       background' = [background EXCEPT !.isRecording = TRUE, !.activeTabId = tabId]
  /\ tasks' = [tasks EXCEPT !.start = [pc |-> "get",
                                       ref |-> background.currentRecording.actions,
                                       len |-> Len(currentActions)]]
  /\ UNCHANGED <<heap, storage, sealed, now, contentvars>>

\* chrome.tabs.get settles.  Resolved: currentRecording becomes a new object with a
\* new, empty actions array, and the content scripts are injected and started.
\* Rejected (no such tab): startRecording ends with the exception.
BgStartGot ==
  /\ tasks.start.pc = "get"
  /\ \/ /\ Len(heap) <= MaxStarts
        /\ heap' = Append(heap, <<>>)
        /\ background' = [background EXCEPT
                            !.currentRecording = [id |-> now, actions |-> Len(heap) + 1]]
     \/ UNCHANGED <<background, heap>>
  /\ tasks' = [tasks EXCEPT !.start = StartIdle]
  /\ UNCHANGED <<storage, sealed, now, contentvars>>

\* const recording = { ...currentRecording, endTime: Date.now() } and what follows
\* up to the next await: the copy shares the actions array with currentRecording
Seal(bg) ==
  LET recording == [id |-> bg.currentRecording.id,
                    actions |-> bg.currentRecording.actions,
                    endTime |-> now]
  IN /\ sealed' = sealed \cup {recording.actions}
     /\ IF Len(heap[recording.actions]) > 0
        THEN /\ background' = bg
             /\ tasks' = [tasks EXCEPT !.stop = [pc |-> "load", rec |-> recording]]
        ELSE /\ background' = [bg EXCEPT !.activeTabId = NoTab]
             /\ tasks' = [tasks EXCEPT !.stop = StopIdle]

\* STOP_RECORDING: stopRecording() up to the await of chrome.tabs.sendMessage, or,
\* with no active tab, up to the await inside saveRecording
BgStopRecording ==
  /\ tasks.stop.pc = "idle"
  /\ IF background.activeTabId # NoTab
     THEN /\ background' = [background EXCEPT !.isRecording = FALSE]
          /\ tasks' = [tasks EXCEPT !.stop = [pc |-> "notify", rec |-> NoRec]]
          /\ UNCHANGED sealed
     ELSE Seal([background EXCEPT !.isRecording = FALSE])
  /\ UNCHANGED <<heap, storage, now, contentvars>>

\* the content scripts have been told to stop (or the message failed)
BgStopNotified ==
  /\ tasks.stop.pc = "notify"
  /\ Seal(background)
  /\ UNCHANGED <<heap, storage, now, contentvars>>

\* saveRecording: getSavedRecordings() has resolved; the recording replaces the one
\* of the same id or goes in front, and chrome.storage.local.set serializes it
saveRecording(recordings, recording) ==
  LET same == {i \in 1..Len(recordings) : recordings[i].id = recording.id}
      saved == [id |-> recording.id, actions |-> heap[recording.actions],
                endTime |-> recording.endTime]
  IN IF same # {}
     THEN [recordings EXCEPT ![CHOOSE i \in same : \A j \in same : i <= j] = saved]
     ELSE <<saved>> \o recordings
BgStopLoaded ==
  /\ tasks.stop.pc = "load"
  /\ storage' = saveRecording(storage, tasks.stop.rec)
  /\ tasks' = [tasks EXCEPT !.stop.pc = "set"]
  /\ UNCHANGED <<background, heap, sealed, now, contentvars>>

\* chrome.storage.local.set has resolved: activeTabId = null; return recording
BgStopSaved ==
  /\ tasks.stop.pc = "set"
  /\ background' = [background EXCEPT !.activeTabId = NoTab]
  /\ tasks' = [tasks EXCEPT !.stop = StopIdle]
  /\ UNCHANGED <<heap, storage, sealed, now, contentvars>>

\* ACTION_RECORDED from a content script
BgActionRecorded ==
  /\ background.isRecording => Len(currentActions) < MaxActions
  /\ heap' = IF background.isRecording THEN Pushed(Entry("click", FALSE)) ELSE heap
  /\ UNCHANGED <<background, storage, tasks, sealed, now, contentvars>>

\* ADD_PAGE_MARKER from the side panel
BgAddPageMarker ==
  /\ background.isRecording => Len(currentActions) < MaxActions
  /\ heap' = IF background.isRecording THEN Pushed(Entry("page-marker", FALSE)) ELSE heap
  /\ UNCHANGED <<background, storage, tasks, sealed, now, contentvars>>

\* AUTO_PAGE_MARKER from a content script's page monitor
BgAutoPageMarker ==
  /\ background.isRecording => Len(currentActions) < MaxActions
  /\ \E pageName \in {"", "Home"} :
       heap' = IF background.isRecording /\ pageName # ""
               THEN Pushed(Entry("page-marker", TRUE)) ELSE heap
  /\ UNCHANGED <<background, storage, tasks, sealed, now, contentvars>>

\* Date.now() moves on
BgTick ==
  /\ now < MaxClock
  /\ now' = now + 1
  /\ UNCHANGED <<bgvars, contentvars>>

NextBackground ==
  \/ BgStartRecording \/ BgStartGot
  \/ BgStopRecording \/ BgStopNotified \/ BgStopLoaded \/ BgStopSaved
  \/ BgActionRecorded \/ BgAddPageMarker \/ BgAutoPageMarker
  \/ BgTick

\* ---- the rest of the tab
\* peer: isRecording, isAssertionMode and assertionType of the content script that
\* runs in another frame of the tab; hint: whether the side panel shows its
\* assertion hint; complete: ASSERTION_COMPLETE messages sent and not yet relayed.
\* the side panel as loaded: state.isRecording, state.recordedActions
NoResponse == [ref |-> 0, actions |-> <<>>]
InitPanel ==
  [isRecording |-> FALSE, recordedActions |-> <<>>, pc |-> "idle", response |-> NoResponse,
   dropped |-> 0]
LoneTab ==
  [peer |-> [isRecording |-> FALSE, isAssertionMode |-> FALSE, assertionType |-> "element"],
   hint |-> FALSE, complete |-> 0, assertions |-> 0]

\* ---- the page of the main specification
Node(parent, tag, attrs, text, type, shadow) ==
  [parent |-> parent, tag |-> tag, attrs |-> attrs, text |-> text, type |-> type,
   shadow |-> shadow, editable |-> FALSE]
With(attr, val) == [NoAttrs EXCEPT ![attr] = val]

\* the pages of the main specification, each with the elements' initial .value
\* <input type=text name=q> <button id=submit>Go</button>
FormPage ==
  [dom |-> <<Node(DOC, "html", NoAttrs, "", "", "none"),
             Node(1, "body", NoAttrs, "", "", "none"),
             Node(2, "input", With("name", "q"), "", "text", "none"),
             Node(2, "button", With("id", "submit"), "Go", "submit", "none")>>,
   value |-> <<Undefined, Undefined, "", "">>]
\* <input type=password name=pw>
LoginPage ==
  [dom |-> <<Node(DOC, "html", NoAttrs, "", "", "none"),
             Node(1, "body", NoAttrs, "", "", "none"),
             Node(2, "input", With("name", "pw"), "", "password", "none")>>,
   value |-> <<Undefined, Undefined, "">>]
\* <x-host> #shadow-root(open): <button>Buy</button> </x-host>
\* <ol><li value=3>Total: $42</li></ol>
WidgetPage ==
  [dom |-> <<Node(DOC, "html", NoAttrs, "", "", "none"),
             Node(1, "body", NoAttrs, "", "", "none"),
             Node(2, "x-host", NoAttrs, "", "", "open"),
             Node(SR(3), "button", NoAttrs, "Buy", "submit", "none"),
             Node(2, "ol", NoAttrs, "", "", "none"),
             Node(5, "li", NoAttrs, "Total: $42", "", "none")>>,
   value |-> <<Undefined, Undefined, Undefined, "", Undefined, "3">>]
Pages == {FormPage, LoginPage, WidgetPage}

InitScript ==
  /\ isRecording = FALSE
  /\ isAssertionMode = FALSE
  /\ assertionType = "element"
  /\ pendingInput = NoNode
  /\ lastAction = NoLast
  /\ lastActionTime = 0
  /\ listeners = {}
  /\ now = 0
  /\ ev = Event("load", NoNode, "")
  /\ out = <<>>
  /\ threw = FALSE
  /\ lastSent = NoSent
  /\ calls = <<>>
  /\ checked = {}
  /\ observers = {}
  /\ wire = <<>>
  /\ tab = LoneTab
  /\ shadowObservers = <<>>
  /\ panel = InitPanel
  /\ InitBackground

Init ==
  /\ variant \in {1, 2}
  /\ \E page \in Pages : dom = page.dom /\ value = page.value
  /\ frames = <<>>
  /\ target = NoNode
  /\ result = NullXP
  /\ InitScript

Next ==
  \/ StartRecording \/ StopRecording
  \/ EnterAssertionMode \/ ExitAssertionMode \/ GetStatus
  \/ Click \/ Input \/ Change \/ Keydown \/ FocusOut
  \/ Tick

Spec == Init /\ [][Next]_vars

\* the service worker, next to a content script that stays as loaded
InitBackgroundSpec ==
  /\ variant = 1
  /\ dom = FormPage.dom /\ value = FormPage.value
  /\ frames = <<>>
  /\ target = NoNode
  /\ result = NullXP
  /\ InitScript
SpecBackground == InitBackgroundSpec /\ [][NextBackground]_vars

\* ------------------------------------------------- form fields
\* an event that reaches a listener with event.target null; the handler runs once
EventKinds == {"click", "input", "change", "keydown", "focusout"}
NullTarget ==
  /\ listeners # {}
  /\ \E kind \in EventKinds : \E arg \in (IF kind = "keydown" THEN {"Enter", "Tab"} ELSE {""}) :
       Commit(Run(CS, Handler(kind, CS, NoNode, arg)), Event(kind, NoNode, arg))
  /\ UNCHANGED <<fixed, value, checked, now, listeners, observers>>

\* <input name=a> <input name=b> <x-host> #shadow-root(open): <input name=c> </x-host>
FieldsPage ==
  [dom |-> <<Node(DOC, "html", NoAttrs, "", "", "none"),
             Node(1, "body", NoAttrs, "", "", "none"),
             Node(2, "input", With("name", "a"), "", "text", "none"),
             Node(2, "input", With("name", "b"), "", "text", "none"),
             Node(2, "x-host", NoAttrs, "", "", "open"),
             Node(SR(5), "input", With("name", "c"), "", "text", "none")>>,
   value |-> <<Undefined, Undefined, "", "", Undefined, "">>]
InitFields ==
  /\ variant \in {1, 2}
  /\ dom = FieldsPage.dom /\ value = FieldsPage.value
  /\ frames = <<>>
  /\ target = NoNode
  /\ result = NullXP
  /\ InitScript
NextFields ==
  \/ StartRecording \/ StopRecording
  \/ Click \/ Input \/ Keydown \/ FocusOut \/ NullTarget
SpecFields == InitFields /\ [][NextFields]_vars

\* ------------------------------------------------- final values
\* <input name=q> <textarea name=note>draft</textarea>: the textarea's text node is
\* its default value and stays when the user edits the field
ValuePage ==
  [dom |-> <<Node(DOC, "html", NoAttrs, "", "", "none"),
             Node(1, "body", NoAttrs, "", "", "none"),
             Node(2, "input", With("name", "q"), "", "text", "none"),
             Node(2, "textarea", With("name", "note"), "draft", "textarea", "none")>>,
   value |-> <<Undefined, Undefined, "", "draft">>]
InitValue ==
  /\ variant \in {1, 2}
  /\ dom = ValuePage.dom /\ value = ValuePage.value
  /\ frames = <<>>
  /\ target = NoNode
  /\ result = NullXP
  /\ InitScript
NextValue ==
  \/ StartRecording \/ StopRecording
  \/ Input \/ Keydown \/ FocusOut
SpecValue == InitValue /\ [][NextValue]_vars

\* ------------------------------------------------- value extraction
\* The pages on which getElementValue is called: an element E (element 3) that may
\* have a value of its own, be content-editable with text, host a shadow root with
\* one field inside, and hold a nested input in the light DOM.
\*   <E value=own contenteditable?>text
\*      #shadow-root: <input value=in> | <textarea> | <div contenteditable>Hello</div>
\*      <input value=li>
\*   </E>
Editable(node) == [node EXCEPT !.editable = TRUE]
InnerKinds == {"input", "textarea", "editable"}
ExtractPage(tag, own, text, editable, shadow, inner, innerValue, nestedValue) ==
  LET E == Node(2, tag, NoAttrs, text, "", shadow)
      field == IF inner = "editable"
               THEN Editable(Node(SR(3), "div", NoAttrs, "Hello", "", "none"))
               ELSE Node(SR(3), inner, NoAttrs, "", "text", "none")
  IN [dom |-> <<Node(DOC, "html", NoAttrs, "", "", "none"),
                Node(1, "body", NoAttrs, "", "", "none"),
                IF editable THEN Editable(E) ELSE E>>
              \o (IF shadow = "none" THEN <<>> ELSE <<field>>)
              \o (IF nestedValue = Undefined THEN <<>>
                  ELSE <<Node(3, "input", NoAttrs, "", "text", "none")>>),
      value |-> <<Undefined, Undefined, own>>
                \o (IF shadow = "none" THEN <<>>
                    ELSE <<IF inner = "editable" THEN Undefined ELSE innerValue>>)
                \o (IF nestedValue = Undefined THEN <<>> ELSE <<nestedValue>>)]
InitExtract ==
  /\ variant \in {1, 2}
  /\ \E tag \in {"div", "x-host"} : \E own \in {Undefined, "", "own"} :
     \E text \in {"", "txt"} : \E editable \in BOOLEAN :
     \E shadow \in {"none", "open", "closed"} : \E inner \in InnerKinds :
     \E innerValue \in {"", "in"} : \E nestedValue \in {Undefined, "", "li"} :
       /\ shadow = "none" => (inner = "input" /\ innerValue = "")
       /\ inner = "editable" => innerValue = ""
       /\ dom = ExtractPage(tag, own, text, editable, shadow, inner, innerValue,
                            nestedValue).dom
       /\ value = ExtractPage(tag, own, text, editable, shadow, inner, innerValue,
                              nestedValue).value
  /\ frames = <<>>
  /\ target = NoNode
  /\ result = Val(Null, FALSE)
  /\ InitScript

\* getElementValue(element) on E
Extract ==
  /\ ev.kind = "load"
  /\ target' = 3
  /\ result' = getElementValue(variant, 3)
  /\ ev' = Event("getElementValue", 3, "")
  /\ UNCHANGED <<variant, dom, value, frames, isRecording, isAssertionMode, assertionType,
                 pendingInput, lastAction, lastActionTime, listeners, now, out, threw,
                 checked, lastSent, calls, observers, wire, tab, shadowObservers, panel, bgvars>>

SpecExtract == InitExtract /\ [][Extract]_vars

\* ------------------------------------------------- delivery
\* chrome.runtime.sendMessage returns a promise.  SpecSend follows the promise of
\* each ACTION_RECORDED message: wire holds, per Action, how far its delivery has
\* got (stage), how many times it was sent, and whether a GET_STATUS reply has
\* said that recording is active.  Only the second script's recordAction has a
\* catch handler that asks and sends again; every other catch handler logs.
Promise(action) ==
  [action |-> action, stage |-> "sent", sent |-> 1, confirmed |-> FALSE,
   retries |-> variant = 2 /\ action.type # "assertion"]
Promises(o) ==
  LET sent == SelectSeq(o, LAMBDA m : m.type = "ACTION_RECORDED")
  IN [i \in 1..Len(sent) |-> Promise(sent[i].action)]

\* .then(response => { if (response?.isRecording) ... }) with every reply
ShouldRetryAlways(p, reply) == p.retries
\* .then(response => { if (response?.isRecording) ... }): reply is the isRecording
\* of the service worker's answer, "true" or "false"
ShouldRetry(p, reply) == p.retries /\ reply = "true"

\* a click whose messages are followed
ClickSent ==
  /\ \E e \in Clickable :
       /\ Heard(ComposedPath(e))
       /\ Commit(RunListeners(CS, ComposedPath(e), "click", ""), Event("click", e, ""))
  /\ wire' = wire \o Promises(out')
  /\ Len(wire') <= MaxSends
  /\ UNCHANGED <<variant, dom, frames, target, result, tab, shadowObservers, panel, bgvars, value,
                 checked, now,
                 listeners, observers>>

\* the promise of the first send resolves
Delivered ==
  /\ \E i \in 1..Len(wire) :
       /\ wire[i].stage = "sent"
       /\ wire' = [wire EXCEPT ![i].stage = "done"]
  /\ Commit(CS, Event("resolved", NoNode, ""))
  /\ UNCHANGED <<variant, dom, frames, target, result, tab, shadowObservers, panel, bgvars, value,
                 checked, now,
                 listeners, observers>>

\* a catch handler that also ends the recording
RejectedStops ==
  /\ \E i \in 1..Len(wire) :
       /\ wire[i].stage = "sent"
       /\ wire' = [wire EXCEPT ![i].stage = "done"]
       /\ Commit([CS EXCEPT !.isRecording = FALSE], Event("rejected", NoNode, ""))
  /\ UNCHANGED <<variant, dom, frames, target, result, tab, shadowObservers, panel, bgvars, value,
                 checked, now,
                 listeners, observers>>

\* the promise of the first send rejects: .catch(err => ...)
Rejected ==
  /\ \E i \in 1..Len(wire) :
       /\ wire[i].stage = "sent"
       /\ IF wire[i].retries
          THEN /\ wire' = [wire EXCEPT ![i].stage = "status"]
               /\ Commit(sendMessage(CS, Msg("GET_STATUS", NoAction)),
                         Event("rejected", NoNode, ""))
          ELSE /\ wire' = [wire EXCEPT ![i].stage = "done"]
               /\ Commit(CS, Event("rejected", NoNode, ""))
  /\ UNCHANGED <<variant, dom, frames, target, result, tab, shadowObservers, panel, bgvars, value,
                 checked, now,
                 listeners, observers>>

\* the GET_STATUS promise settles: with the service worker's isRecording, or
\* rejected ("failed")
StatusSettled ==
  /\ \E i \in 1..Len(wire) : \E reply \in {"true", "false", "failed"} :
       /\ wire[i].stage = "status"
       /\ IF reply # "failed" /\ ShouldRetry(wire[i], reply)
          THEN /\ wire' = [wire EXCEPT ![i].stage = "retry", ![i].sent = @ + 1,
                                       ![i].confirmed = (reply = "true")]
               /\ Commit(sendMessage(CS, Msg("ACTION_RECORDED", wire[i].action)),
                         Event("status", NoNode, ""))
          ELSE /\ wire' = [wire EXCEPT ![i].stage = "done",
                                       ![i].confirmed = (reply = "true")]
               /\ Commit(CS, Event("status", NoNode, ""))
  /\ UNCHANGED <<variant, dom, frames, target, result, tab, shadowObservers, panel, bgvars, value,
                 checked, now,
                 listeners, observers>>

\* the promise of the second send settles: .catch(() => {})
RetrySettled ==
  /\ \E i \in 1..Len(wire) : \E ok \in BOOLEAN :
       /\ wire[i].stage = "retry"
       /\ wire' = [wire EXCEPT ![i].stage = "done"]
       /\ Commit(CS, Event(IF ok THEN "resolved" ELSE "rejected", NoNode, ""))
  /\ UNCHANGED <<variant, dom, frames, target, result, tab, shadowObservers, panel, bgvars, value,
                 checked, now,
                 listeners, observers>>

InitSend ==
  /\ variant \in {1, 2}
  /\ dom = FormPage.dom /\ value = FormPage.value
  /\ frames = <<>>
  /\ target = NoNode
  /\ result = NullXP
  /\ InitScript
NextSend ==
  \/ StartRecording \/ StopRecording \/ EnterAssertionMode \/ Input
  \/ ClickSent \/ Delivered \/ Rejected \/ StatusSettled \/ RetrySettled
SpecSend == InitSend /\ [][NextSend]_vars

\* ------------------------------------------------- failures
\* The two ways the handling of an event fails: the first script's recordAssertion
\* throws on the <li value=3> of WidgetPage, and a sendMessage promise rejects.
InitFail ==
  /\ variant \in {1, 2}
  /\ dom = WidgetPage.dom /\ value = WidgetPage.value
  /\ frames = <<>>
  /\ target = NoNode
  /\ result = NullXP
  /\ InitScript
NextFail ==
  \/ StartRecording \/ EnterAssertionMode \/ Click
  \/ ClickSent \/ Delivered \/ Rejected \/ StatusSettled \/ RetrySettled
SpecFail == InitFail /\ [][NextFail]_vars

\* ------------------------------------------------- assertions
\* <input name=q> <p id=long> 201 characters </p> <p id=edge> 200 characters </p>
\* <x-host> #shadow-root(open): <button>Buy</button> </x-host>
Fifty == "0123456789012345678901234567890123456789012345678"  \o "9"
Long200 == Fifty \o Fifty \o Fifty \o Fifty
Long201 == Long200 \o "x"
AssertPage ==
  [dom |-> <<Node(DOC, "html", NoAttrs, "", "", "none"),
             Node(1, "body", NoAttrs, "", "", "none"),
             Node(2, "input", With("name", "q"), "", "text", "none"),
             Node(2, "p", With("id", "long"), Long201, "", "none"),
             Node(2, "p", With("id", "edge"), Long200, "", "none"),
             Node(2, "x-host", NoAttrs, "", "", "open"),
             Node(SR(6), "button", NoAttrs, "Buy", "submit", "none")>>,
   value |-> <<Undefined, Undefined, "", Undefined, Undefined, Undefined, "">>]
InitAssert ==
  /\ variant \in {1, 2}
  /\ dom = AssertPage.dom /\ value = AssertPage.value
  /\ frames = <<>>
  /\ target = NoNode
  /\ result = NullXP
  /\ InitScript
NextAssert ==
  \/ StartRecording \/ EnterAssertionMode \/ ExitAssertionMode
  \/ Click \/ Input
SpecAssert == InitAssert /\ [][NextAssert]_vars

\* ------------------------------------------------- a tab with two frames
\* chrome.tabs.sendMessage(tabId, message) without a frameId reaches the content
\* script of every frame of the tab.  The script of the top frame is the script of
\* the other specifications; the script of the second frame (the peer) runs the same
\* code on the same page, and only its recording and assertion state is kept.
Completes(o) == Len(SelectSeq(o, LAMBDA m : m.type = "ASSERTION_COMPLETE"))
Assertions(o) ==
  Len(SelectSeq(o, LAMBDA m : m.type = "ACTION_RECORDED" /\ m.action.type = "assertion"))
PeerCS ==
  [CS EXCEPT !.isRecording = tab.peer.isRecording,
             !.isAssertionMode = tab.peer.isAssertionMode,
             !.assertionType = tab.peer.assertionType,
             !.pendingInput = NoNode, !.lastAction = NoLast, !.lastActionTime = 0]
PeerOf(s) ==
  [isRecording |-> s.isRecording, isAssertionMode |-> s.isAssertionMode,
   assertionType |-> s.assertionType]

\* START_RECORDING sent to the tab: startRecording() in both frames
TabStartRecording ==
  /\ ~isRecording /\ ~tab.peer.isRecording
  /\ Commit([CS EXCEPT !.isRecording = TRUE], Event("START_RECORDING", NoNode, ""))
  /\ listeners' = listeners \cup ShadowRootsBelow({DOC})
  /\ observers' = observers \cup ShadowRootsBelow({DOC})
  /\ tab' = [tab EXCEPT !.peer.isRecording = TRUE]
  /\ UNCHANGED <<variant, dom, frames, target, result, wire, panel, shadowObservers, bgvars,
                 value, checked, now>>

\* the side panel's startAssertion(type): the hint is shown and ENTER_ASSERTION_MODE
\* is sent to the tab: enterAssertionMode(type) in both frames
TabEnterAssertionMode ==
  /\ \E type \in {"element", "text"} :
       /\ Commit(enterAssertionMode(CS, type), Event("ENTER_ASSERTION_MODE", NoNode, type))
       /\ tab' = [tab EXCEPT !.peer = PeerOf(enterAssertionMode(PeerCS, type)),
                             !.hint = TRUE, !.assertions = 0]
  /\ UNCHANGED <<variant, dom, frames, target, result, wire, panel, shadowObservers, bgvars,
                 value, checked, now,
                 listeners, observers>>

\* a click on element e of the top frame
TabClick ==
  /\ \E e \in Clickable :
       /\ Heard(ComposedPath(e))
       /\ Commit(RunListeners(CS, ComposedPath(e), "click", ""), Event("click", e, ""))
  /\ tab.complete + Completes(out') <= MaxComplete
  /\ tab' = [tab EXCEPT !.complete = @ + Completes(out'),
                        !.assertions = @ + Assertions(out')]
  /\ UNCHANGED <<variant, dom, frames, target, result, wire, panel, shadowObservers, bgvars,
                 value, checked, now,
                 listeners, observers>>

\* a click on element e of the second frame: its script's handleClick
PeerClick ==
  /\ tab.peer.isRecording
  /\ \E e \in Clickable : \E r \in {Run(PeerCS, handleClick(PeerCS, e))} :
       /\ tab.complete + Completes(r.out) <= MaxComplete
       /\ tab' = [tab EXCEPT !.peer = PeerOf(r),
                             !.complete = @ + Completes(r.out),
                             !.assertions = @ + Assertions(r.out)]
       /\ ev' = Event("click", e, "peer")
  /\ UNCHANGED <<variant, dom, frames, target, result, wire, panel, shadowObservers, bgvars,
                 value, checked, now,
                 listeners, observers, isRecording, isAssertionMode, assertionType,
                 pendingInput, lastAction, lastActionTime, out, threw, lastSent, calls>>

\* the service worker passes ASSERTION_COMPLETE on to the side panel, which hides
\* the hint; no content script is told
RelayComplete ==
  /\ tab.complete > 0
  /\ tab' = [tab EXCEPT !.complete = @ - 1, !.hint = FALSE]
  /\ ev' = Event("ASSERTION_COMPLETE", NoNode, "")
  /\ UNCHANGED <<variant, dom, frames, target, result, wire, panel, shadowObservers, bgvars,
                 value, checked, now,
                 listeners, observers, isRecording, isAssertionMode, assertionType,
                 pendingInput, lastAction, lastActionTime, out, threw, lastSent, calls>>

InitTab ==
  /\ variant \in {1, 2}
  /\ dom = FormPage.dom /\ value = FormPage.value
  /\ frames = <<>>
  /\ target = NoNode
  /\ result = NullXP
  /\ InitScript
NextTab ==
  \/ TabStartRecording \/ TabEnterAssertionMode
  \/ TabClick \/ PeerClick \/ RelayComplete
SpecTab == InitTab /\ [][NextTab]_vars

\* ------------------------------------------------- one recording session
\* The service worker and the content script of the tab together.  wire is here the
\* channel from the script to the service worker: the ACTION_RECORDED messages the
\* script has sent, in order, each "sent" (on its way), "pushed" (appended to
\* currentRecording.actions) or "dropped" (handled while isRecording was false).

\* chrome.tabs.get settles in startRecording; resolved: the new Recording, then the
\* injection, up to the await of sendMessage(START_RECORDING)
SessStartGot ==
  /\ tasks.start.pc = "get"
  /\ \/ /\ Len(heap) <= MaxStarts
        /\ heap' = Append(heap, <<>>)
        /\ background' = [background EXCEPT
                            !.currentRecording = [id |-> now, actions |-> Len(heap) + 1]]
        /\ tasks' = [tasks EXCEPT !.start.pc = "send"]
     \/ /\ UNCHANGED <<background, heap>>
        /\ tasks' = [tasks EXCEPT !.start = StartIdle]
  /\ UNCHANGED <<storage, sealed, now, contentvars>>

\* the content script handles START_RECORDING: startRecording()
SessStarted ==
  /\ tasks.start.pc = "send"
  /\ tasks' = [tasks EXCEPT !.start = StartIdle]
  /\ IF isRecording
     THEN /\ Commit(CS, Event("START_RECORDING", NoNode, ""))
          /\ UNCHANGED <<listeners, observers>>
     ELSE /\ Commit([CS EXCEPT !.isRecording = TRUE,
                               !.pendingInput = IF variant = 2 THEN NoNode ELSE @],
                    Event("START_RECORDING", NoNode, ""))
          /\ listeners' = listeners \cup ShadowRootsBelow({DOC})
          /\ observers' = observers \cup ShadowRootsBelow({DOC})
  /\ UNCHANGED <<variant, dom, frames, target, result, wire, tab, shadowObservers, panel, value,
                 checked, now,
                 background, heap, storage, sealed>>

\* a click on element e; the messages of the script go on the channel
SessClick ==
  /\ \E e \in Clickable :
       /\ Heard(ComposedPath(e))
       /\ Commit(RunListeners(CS, ComposedPath(e), "click", ""), Event("click", e, ""))
  /\ wire' = wire \o Promises(out')
  /\ Len(wire') <= MaxActions
  /\ UNCHANGED <<variant, dom, frames, target, result, tab, shadowObservers, panel, bgvars, value,
                 checked, now,
                 listeners, observers>>

\* the content script handles the STOP_RECORDING that stopRecording of the service
\* worker has sent: stopRecording(); its messages go on the channel
SessStopped ==
  /\ tasks.stop.pc = "notify"
  /\ isRecording
  /\ Commit(IF variant = 1
            THEN [CS EXCEPT !.isRecording = FALSE, !.isAssertionMode = FALSE]
            ELSE [Run(CS, <<FlushCall>>) EXCEPT !.isRecording = FALSE],
            Event("STOP_RECORDING", NoNode, ""))
  /\ listeners' = listeners \ {DOC}
  /\ observers' = {}
  /\ wire' = wire \o Promises(out')
  /\ Len(wire') <= MaxActions
  /\ UNCHANGED <<variant, dom, frames, target, result, tab, shadowObservers, panel, bgvars, value,
                 checked, now>>

\* the service worker handles the oldest message of the channel: ACTION_RECORDED
SessDelivered ==
  /\ \E i \in 1..Len(wire) :
       /\ wire[i].stage = "sent"
       /\ \A j \in 1..(i - 1) : wire[j].stage # "sent"
       /\ IF background.isRecording
          THEN /\ heap' = Pushed(Entry(wire[i].action.type, FALSE))
               /\ wire' = [wire EXCEPT ![i].stage = "pushed"]
          ELSE /\ heap' = heap
               /\ wire' = [wire EXCEPT ![i].stage = "dropped"]
  /\ UNCHANGED <<background, storage, tasks, sealed, now, variant, dom, value, frames,
                 isRecording, isAssertionMode, assertionType, pendingInput, lastAction,
                 lastActionTime, listeners, ev, out, threw, checked, lastSent, calls,
                 target, result, observers, tab, shadowObservers, panel>>

InitSession ==
  /\ variant \in {1, 2}
  /\ dom = FormPage.dom /\ value = FormPage.value
  /\ frames = <<>>
  /\ target = NoNode
  /\ result = NullXP
  /\ InitScript
NextSession ==
  \/ BgStartRecording \/ SessStartGot \/ SessStarted
  \/ Input \/ SessClick \/ SessDelivered
  \/ BgStopRecording \/ SessStopped \/ BgStopNotified \/ BgStopLoaded \/ BgStopSaved
SpecSession == InitSession /\ [][NextSession]_vars

\* ------------------------------------------------- a restarted session
\* The service worker alone, with START_RECORDING handled again while a session is
\* active.  wire is here the log of the ACTION_RECORDED messages handled: each with
\* the Action built from it and whether the `if (isRecording)` test let it in.

\* chrome.tabs.get settles in startRecording, as in BgStartGot, for up to
\* MaxRestarts further Recordings
RestartGot ==
  /\ tasks.start.pc = "get"
  /\ \/ /\ Len(heap) <= MaxStarts + MaxRestarts
        /\ heap' = Append(heap, <<>>)
        /\ background' = [background EXCEPT
                            !.currentRecording = [id |-> now, actions |-> Len(heap) + 1]]
     \/ UNCHANGED <<background, heap>>
  /\ tasks' = [tasks EXCEPT !.start = StartIdle]
  /\ UNCHANGED <<storage, sealed, now, contentvars>>

\* ACTION_RECORDED handled: the n-th message of the run
Accepted ==
  /\ Len(wire) < MaxActions
  /\ LET action == [type |-> "click", auto |-> FALSE, n |-> Len(wire) + 1]
     IN IF background.isRecording
        THEN /\ heap' = Pushed(action)
             /\ wire' = Append(wire, [action |-> action, stage |-> "pushed"])
        ELSE /\ heap' = heap
             /\ wire' = Append(wire, [action |-> action, stage |-> "dropped"])
  /\ UNCHANGED <<background, storage, tasks, sealed, now, variant, dom, value, frames,
                 isRecording, isAssertionMode, assertionType, pendingInput, lastAction,
                 lastActionTime, listeners, ev, out, threw, checked, lastSent, calls,
                 target, result, observers, tab, shadowObservers, panel>>

NextRestart ==
  \/ BgStartRecording \/ RestartGot \/ Accepted
  \/ BgStopRecording \/ BgStopNotified \/ BgStopLoaded \/ BgStopSaved
SpecRestart == InitBackgroundSpec /\ [][NextRestart]_vars

\* ------------------------------------------------- storage handlers
\* SAVE_RECORDING, DELETE_RECORDING and RENAME_RECORDING, and the auto-save of
\* stopRecording, which is a call of saveRecording as well.  handleMessage is not
\* awaited by the listener, so the handlers run interleaved: each waits first at
\* `await getSavedRecordings()` and then at `await chrome.storage.local.set(...)`.
\* tasks.store lists the handlers of the run: the request, where the handler is,
\* and the list it read.  A stored recording is here its id and its name.
Stored(id, name) == [id |-> id, name |-> name]
StoreRequests ==
  {[op |-> "save", id |-> 1, name |-> "a"], [op |-> "save", id |-> 2, name |-> "b"],
   [op |-> "delete", id |-> 1, name |-> ""], [op |-> "rename", id |-> 1, name |-> "c"]}

\* what each function makes of the list it has read
FindIndex(recordings, id) ==
  LET same == {i \in 1..Len(recordings) : recordings[i].id = id}
  IN IF same = {} THEN 0 ELSE CHOOSE i \in same : \A j \in same : i <= j
saveRecordingList(recordings, request) ==
  LET existingIndex == FindIndex(recordings, request.id)
  IN IF existingIndex > 0
     THEN [recordings EXCEPT ![existingIndex] = Stored(request.id, request.name)]
     ELSE <<Stored(request.id, request.name)>> \o recordings
deleteRecording(recordings, request) ==
  SelectSeq(recordings, LAMBDA r : r.id # request.id)
renameRecording(recordings, request) ==
  LET found == FindIndex(recordings, request.id)
  IN IF found > 0 THEN [recordings EXCEPT ![found].name = request.name] ELSE recordings
StoreApply(recordings, request) ==
  CASE request.op = "save" -> saveRecordingList(recordings, request)
    [] request.op = "delete" -> deleteRecording(recordings, request)
    [] request.op = "rename" -> renameRecording(recordings, request)

\* a message arrives: the handler runs up to `await chrome.storage.local.get`
StoreRequest ==
  /\ Len(tasks.store) < MaxJobs
  /\ \E request \in StoreRequests :
       tasks' = [tasks EXCEPT !.store = Append(@, [request |-> request, pc |-> "get",
                                                    recordings |-> <<>>])]
  /\ UNCHANGED <<background, heap, storage, sealed, now, contentvars>>

\* chrome.storage.local.get reads the stored list for a handler
StoreRead ==
  /\ \E i \in 1..Len(tasks.store) :
       /\ tasks.store[i].pc = "get"
       /\ tasks' = [tasks EXCEPT !.store[i].pc = "got", !.store[i].recordings = storage]
  /\ UNCHANGED <<background, heap, storage, sealed, now, contentvars>>

\* the handler goes on with the list it was given, and chrome.storage.local.set
\* writes what it made of it; renameRecording without a match writes nothing
StoreWrite ==
  /\ \E i \in 1..Len(tasks.store) :
       LET job == tasks.store[i]
       IN /\ job.pc = "got"
          /\ storage' = IF job.request.op = "rename"
                           /\ FindIndex(job.recordings, job.request.id) = 0
                        THEN storage
                        ELSE StoreApply(job.recordings, job.request)
          /\ tasks' = [tasks EXCEPT !.store[i].pc = "done"]
  /\ UNCHANGED <<background, heap, sealed, now, contentvars>>

NextStorage == StoreRequest \/ StoreRead \/ StoreWrite
SpecStorage == InitBackgroundSpec /\ [][NextStorage]_vars

\* ------------------------------------------------- a stream of events
\* Clicks that follow each other in time.  wire is here the log of the calls of
\* recordAction that reached the dedup test, in order, over the whole run.
StreamClick ==
  /\ \E e \in Clickable :
       /\ Heard(ComposedPath(e))
       /\ Commit(RunListeners(CS, ComposedPath(e), "click", ""), Event("click", e, ""))
  /\ wire' = wire \o calls'
  /\ Len(wire') <= MaxStream
  /\ UNCHANGED <<variant, dom, frames, target, result, tab, shadowObservers, panel, bgvars, value,
                 checked, now,
                 listeners, observers>>

InitStream ==
  /\ variant \in {1, 2}
  /\ dom = FormPage.dom /\ value = FormPage.value
  /\ frames = <<>>
  /\ target = NoNode
  /\ result = NullXP
  /\ InitScript
NextStream == StartRecording \/ StopRecording \/ StreamClick \/ Tick
SpecStream == InitStream /\ [][NextStream]_vars

\* ------------------------------------------------- a cancelled assertion
\* ENTER_ASSERTION_MODE, EXIT_ASSERTION_MODE and clicks, in the order in which the
\* script handles them.  wire is here the log of these steps: the script state
\* before the step, the modes after it, and what the step sent and recorded.
Logged(kind) ==
  [kind |-> kind,
   before |-> [isRecording |-> isRecording, isAssertionMode |-> isAssertionMode,
               pendingInput |-> pendingInput, lastAction |-> lastAction,
               lastActionTime |-> lastActionTime],
   after |-> [isRecording |-> isRecording', isAssertionMode |-> isAssertionMode'],
   out |-> out', calls |-> calls']

CancelEnter ==
  /\ Len(wire) < MaxLog
  /\ \E type \in {"element", "text", Undefined} :
       Commit(enterAssertionMode(CS, type), Event("ENTER_ASSERTION_MODE", NoNode, type))
  /\ wire' = Append(wire, Logged("enter"))
  /\ UNCHANGED <<variant, dom, frames, target, result, tab, shadowObservers, panel, bgvars, value,
                 checked, now, listeners, observers>>

CancelExit ==
  /\ Len(wire) < MaxLog
  /\ Commit(exitAssertionMode(CS), Event("EXIT_ASSERTION_MODE", NoNode, ""))
  /\ wire' = Append(wire, Logged("exit"))
  /\ UNCHANGED <<variant, dom, frames, target, result, tab, shadowObservers, panel, bgvars, value,
                 checked, now, listeners, observers>>

CancelClick ==
  /\ Len(wire) < MaxLog
  /\ \E e \in Clickable :
       /\ Heard(ComposedPath(e))
       /\ Commit(RunListeners(CS, ComposedPath(e), "click", ""), Event("click", e, ""))
  /\ wire' = Append(wire, Logged("click"))
  /\ UNCHANGED <<variant, dom, frames, target, result, tab, shadowObservers, panel, bgvars, value,
                 checked, now, listeners, observers>>

InitCancel ==
  /\ variant \in {1, 2}
  /\ \E page \in {FormPage, WidgetPage} : dom = page.dom /\ value = page.value
  /\ frames = <<>>
  /\ target = NoNode
  /\ result = NullXP
  /\ InitScript
NextCancel ==
  \/ StartRecording \/ StopRecording \/ Tick
  \/ CancelEnter \/ CancelExit \/ CancelClick
SpecCancel == InitCancel /\ [][NextCancel]_vars

\* ------------------------------------------------- export
\* exportToSeleniumPython and exportToSeleniumJava walk recording.actions with the
\* same loop and differ in the text of the statements only.  The generated code is
\* the list of its statements: a frame switch (with the descriptor it uses), a
\* switch to the default content, an assertion or an action (each with the index
\* of the recorded action it stands for); comments and page headers are left out.
FrameDescriptors == {[name |-> "A"], [name |-> "B"]}
IframePaths == {<<>>} \cup {<<f>> : f \in FrameDescriptors}
ExportedTypes == {"click", "assertion", "page-marker"}
Recorded(type, iframe) == [type |-> type, iframe |-> iframe]
Recordings ==
  UNION {[1..n -> {Recorded(type, iframe) : type \in ExportedTypes, iframe \in IframePaths}] :
           n \in 1..MaxExport}
Statement(kind, frame, index) == [kind |-> kind, frame |-> frame, index |-> index]
NoFrame == [name |-> ""]

\* the loop `for (const action of recording.actions)` from action i on, and the
\* switch back after the loop
RECURSIVE ExportLoop(_, _, _, _)
ExportLoop(actions, i, inIframe, code) ==
  IF i > Len(actions)
  THEN IF inIframe THEN Append(code, Statement("default", NoFrame, 0)) ELSE code
  ELSE LET action == actions[i]
           iframePath == action.iframe
       IN IF action.type = "page-marker" THEN ExportLoop(actions, i + 1, inIframe, code)
          ELSE IF action.type = "assertion"
          THEN ExportLoop(actions, i + 1, inIframe,
                          Append(code, Statement("assert", NoFrame, i)))
          ELSE IF Len(iframePath) > 0 /\ ~inIframe
          THEN ExportLoop(actions, i + 1, TRUE,
                          code \o <<Statement("frame", iframePath[1], 0),
                                    Statement("action", NoFrame, i)>>)
          ELSE IF Len(iframePath) = 0 /\ inIframe
          THEN ExportLoop(actions, i + 1, FALSE,
                          code \o <<Statement("default", NoFrame, 0),
                                    Statement("action", NoFrame, i)>>)
          ELSE ExportLoop(actions, i + 1, inIframe,
                          Append(code, Statement("action", NoFrame, i)))
exportToSeleniumPython(recording) == ExportLoop(recording, 1, FALSE, <<>>)
exportToSeleniumJava(recording) == ExportLoop(recording, 1, FALSE, <<>>)

InitExport ==
  /\ variant = 1
  /\ dom = FormPage.dom /\ value = FormPage.value
  /\ frames = <<>>
  /\ target \in Recordings
  /\ result = <<>>
  /\ InitScript
ExportPython ==
  /\ ev.kind # "exportToSeleniumPython"
  /\ result' = exportToSeleniumPython(target)
  /\ ev' = Event("exportToSeleniumPython", NoNode, "")
  /\ UNCHANGED <<variant, dom, value, frames, isRecording, isAssertionMode, assertionType,
                 pendingInput, lastAction, lastActionTime, listeners, now, out, threw,
                 checked, lastSent, calls, target, observers, wire, tab, shadowObservers, panel,
                 bgvars>>
ExportJava ==
  /\ ev.kind # "exportToSeleniumJava"
  /\ result' = exportToSeleniumJava(target)
  /\ ev' = Event("exportToSeleniumJava", NoNode, "")
  /\ UNCHANGED <<variant, dom, value, frames, isRecording, isAssertionMode, assertionType,
                 pendingInput, lastAction, lastActionTime, listeners, now, out, threw,
                 checked, lastSent, calls, target, observers, wire, tab, shadowObservers, panel,
                 bgvars>>
NextExport == ExportPython \/ ExportJava
SpecExport == InitExport /\ [][NextExport]_vars

\* ------------------------------------------------- the side panel
\* src/sidepanel.js next to the service worker.  wire is here the NEW_ACTION
\* notifications on their way from the service worker to the side panel, oldest
\* first; the response to STOP_RECORDING, sent after them, arrives after them.  Each
\* Action carries the number of Actions the service worker had appended before it;
\* panel.dropped counts (history) the notifications ignored since the last start.
panelvars == <<variant, dom, value, frames, isRecording, isAssertionMode, assertionType,
               pendingInput, lastAction, lastActionTime, listeners, now, out, threw,
               checked, lastSent, calls, target, result, observers, tab, shadowObservers>>
RECURSIVE Appended(_)
Appended(n) == IF n = 0 THEN 0 ELSE Len(heap[n]) + Appended(n - 1)

\* the side panel's startRecording() up to its await: START_RECORDING is sent
PanelStartRecording ==
  /\ panel.pc \in {"idle", "done"}
  /\ panel' = [panel EXCEPT !.isRecording = TRUE, !.recordedActions = <<>>, !.pc = "start",
                            !.dropped = 0]
  /\ ev' = Event("startRecording", NoNode, "")
  /\ UNCHANGED <<variant, dom, value, frames, isRecording, isAssertionMode, assertionType,
                 pendingInput, lastAction, lastActionTime, listeners, now, out, threw,
                 checked, lastSent, calls, target, result, observers, tab, shadowObservers,
                 wire, bgvars>>

\* the service worker handles that START_RECORDING, as in BgStartRecording
PanelBgStart ==
  /\ panel.pc = "start"
  /\ tasks.start.pc = "idle"
  /\ \E tabId \in {1} :
       background' = [background EXCEPT !.isRecording = TRUE, !.activeTabId = tabId]
  /\ tasks' = [tasks EXCEPT !.start = [pc |-> "get",
                                       ref |-> background.currentRecording.actions,
                                       len |-> Len(currentActions)]]
  /\ panel' = [panel EXCEPT !.pc = "on"]
  /\ UNCHANGED <<heap, storage, sealed, wire, ev, panelvars>>

\* the service worker handles an ACTION_RECORDED and notifies the side panel
PanelActionRecorded ==
  /\ Len(wire) < MaxActions
  /\ background.isRecording => Len(currentActions) < MaxActions
  /\ LET action == [type |-> "click", auto |-> FALSE, n |-> Appended(Len(heap)) + 1]
     IN IF background.isRecording
        THEN /\ heap' = Pushed(action)
             /\ wire' = Append(wire, action)
        ELSE UNCHANGED <<heap, wire>>
  /\ UNCHANGED <<background, storage, tasks, sealed, panel, ev, panelvars>>

\* handleBackgroundMessage: NEW_ACTION
PanelNewAction ==
  /\ wire # <<>>
  /\ wire' = Tail(wire)
  /\ panel' = IF panel.isRecording
              THEN [panel EXCEPT !.recordedActions = Append(@, Head(wire))]
              ELSE [panel EXCEPT !.dropped = @ + 1]
  /\ ev' = Event("NEW_ACTION", NoNode, "")
  /\ UNCHANGED <<variant, dom, value, frames, isRecording, isAssertionMode, assertionType,
                 pendingInput, lastAction, lastActionTime, listeners, now, out, threw,
                 checked, lastSent, calls, target, result, observers, tab, shadowObservers,
                 bgvars>>

\* the side panel's stopRecording() up to its await: STOP_RECORDING is sent
PanelStopRecording ==
  /\ panel.pc = "on"
  /\ panel' = [panel EXCEPT !.isRecording = FALSE, !.pc = "stop"]
  /\ ev' = Event("stopRecording", NoNode, "")
  /\ UNCHANGED <<variant, dom, value, frames, isRecording, isAssertionMode, assertionType,
                 pendingInput, lastAction, lastActionTime, listeners, now, out, threw,
                 checked, lastSent, calls, target, result, observers, tab, shadowObservers,
                 wire, bgvars>>

\* sendResponse({ success: true, recording }): the message holds the Recording as
\* it is when stopRecording returns
Response(recording) == [ref |-> recording.actions, actions |-> heap[recording.actions]]
Returned(bg) ==
  IF Len(heap[bg.currentRecording.actions]) > 0 THEN panel.response
  ELSE [ref |-> bg.currentRecording.actions, actions |-> <<>>]

\* the service worker handles that STOP_RECORDING, as in BgStopRecording
PanelBgStop ==
  /\ panel.pc = "stop"
  /\ tasks.stop.pc = "idle"
  /\ IF background.activeTabId # NoTab
     THEN /\ background' = [background EXCEPT !.isRecording = FALSE]
          /\ tasks' = [tasks EXCEPT !.stop = [pc |-> "notify", rec |-> NoRec]]
          /\ UNCHANGED sealed
          /\ panel' = [panel EXCEPT !.pc = "await"]
     ELSE /\ Seal([background EXCEPT !.isRecording = FALSE])
          /\ panel' = [panel EXCEPT !.pc = "await", !.response = Returned(background)]
  /\ UNCHANGED <<heap, storage, now, wire, ev, panelvars>>

\* the content scripts have been told to stop, as in BgStopNotified; with no
\* action recorded stopRecording returns here
PanelBgNotified ==
  /\ tasks.stop.pc = "notify"
  /\ Seal(background)
  /\ panel' = [panel EXCEPT !.response = Returned(background)]
  /\ UNCHANGED <<heap, storage, now, wire, ev, panelvars>>

\* chrome.storage.local.set has resolved, as in BgStopSaved: return recording
PanelBgSaved ==
  /\ tasks.stop.pc = "set"
  /\ background' = [background EXCEPT !.activeTabId = NoTab]
  /\ tasks' = [tasks EXCEPT !.stop = StopIdle]
  /\ panel' = [panel EXCEPT !.response = Response(tasks.stop.rec)]
  /\ UNCHANGED <<heap, storage, sealed, now, wire, ev, panelvars>>

\* the response to STOP_RECORDING arrives in a side panel that keeps the list it
\* has built from NEW_ACTION
PanelStoppedKeeps ==
  /\ panel.pc = "await"
  /\ tasks.stop.pc = "idle"
  /\ wire = <<>>
  /\ panel' = [panel EXCEPT !.pc = "done"]
  /\ ev' = Event("STOP_RECORDING", NoNode, "response")
  /\ UNCHANGED <<variant, dom, value, frames, isRecording, isAssertionMode, assertionType,
                 pendingInput, lastAction, lastActionTime, listeners, now, out, threw,
                 checked, lastSent, calls, target, result, observers, tab, shadowObservers,
                 wire, bgvars>>

\* the response to STOP_RECORDING arrives: state.recordedActions =
\* response.recording.actions
PanelStopped ==
  /\ panel.pc = "await"
  /\ tasks.stop.pc = "idle"
  /\ wire = <<>>
  /\ panel' = [panel EXCEPT !.recordedActions = panel.response.actions, !.pc = "done"]
  /\ ev' = Event("STOP_RECORDING", NoNode, "response")
  /\ UNCHANGED <<variant, dom, value, frames, isRecording, isAssertionMode, assertionType,
                 pendingInput, lastAction, lastActionTime, listeners, now, out, threw,
                 checked, lastSent, calls, target, result, observers, tab, shadowObservers,
                 wire, bgvars>>

NextPanel ==
  \/ PanelStartRecording \/ PanelBgStart \/ BgStartGot
  \/ PanelActionRecorded \/ PanelNewAction
  \/ PanelStopRecording \/ PanelBgStop \/ PanelBgNotified \/ BgStopLoaded \/ PanelBgSaved
  \/ PanelStopped
SpecPanel == InitBackgroundSpec /\ [][NextPanel]_vars

\* ------------------------------------------ shadow root observation
\* The page script adds a subtree; the MutationObserver callbacks of the content
\* script run before the next event.
\*   host   : <x-a> #shadow-root </x-a>
\*   wrapped: <div> <x-a> #shadow-root </x-a> </div>
\*   nested : <x-a> #shadow-root: <x-b> #shadow-root </x-b> </x-a>
Subtree(shape, parent, top, mode) ==
  CASE shape = "host" -> <<Node(parent, "x-a", NoAttrs, "", "", mode)>>
    [] shape = "wrapped" -> <<Node(parent, "div", NoAttrs, "", "", "none"),
                              Node(top, "x-a", NoAttrs, "", "", mode)>>
    [] shape = "nested" -> <<Node(parent, "x-a", NoAttrs, "", "", "open"),
                             Node(SR(top), "x-b", NoAttrs, "", "", mode)>>

\* attachListeners(sr); findAndAttachToShadowRoots(sr); observeShadowRoot(sr) for
\* the shadow root of each of the elements: the roots that get listeners and an
\* observer
Attached(elements) ==
  ShadowRootsBelow({SR(h) : h \in {n \in elements : dom[n].shadow = "open"}})

\* the callback of the observer on `root` for the added node: the first script's
\* main observer looks at the added node only; its shadow observers, and both
\* kinds of the second script, also look at the node's descendants
addedNodes(connected, recording, root, node) ==
  IF root \notin connected THEN {}
  ELSE IF root = DOC /\ ~recording THEN {}
  ELSE IF root # DOC /\ variant = 2 /\ ~recording THEN {}
  ELSE IF root = DOC /\ variant = 1 THEN Attached({node})
  ELSE Attached({node} \cup {n \in Nodes : IsDescendant(n, node)})

\* the page appends a subtree below the body or inside an open shadow root
Insert ==
  /\ Len(dom) + 2 <= MaxNodes
  /\ \E parent \in {2} \cup {SR(h) : h \in {n \in Nodes : dom[n].shadow = "open"}} :
     \E shape \in {"host", "wrapped", "nested"} : \E mode \in {"open", "closed"} :
     \E top \in {Len(dom) + 1} :
     \E root \in {IF parent = 2 THEN DOC ELSE parent} :
     \E connected \in {observers} : \E recording \in {isRecording} :
       /\ dom' = dom \o Subtree(shape, parent, top, mode)
       /\ value' = value \o [i \in 1..Len(Subtree(shape, parent, top, mode)) |-> Undefined]
       /\ variant' = variant
       /\ listeners' = listeners \cup addedNodes(connected, recording, root, top)'
       /\ observers' = observers \cup addedNodes(connected, recording, root, top)'
       /\ Commit(CS, Event("insert", top, shape))
  /\ UNCHANGED <<frames, target, result, wire, tab, shadowObservers, panel, bgvars, checked, now>>

\* <body> <x-host> #shadow-root(open) </x-host> </body>
ObservePage ==
  <<Node(DOC, "html", NoAttrs, "", "", "none"),
    Node(1, "body", NoAttrs, "", "", "none"),
    Node(2, "x-host", NoAttrs, "", "", "open")>>
InitObserve ==
  /\ variant \in {1, 2}
  /\ dom = ObservePage
  /\ value = <<Undefined, Undefined, Undefined>>
  /\ frames = <<>>
  /\ target = NoNode
  /\ result = NullXP
  /\ InitScript
NextObserve == StartRecording \/ StopRecording \/ Insert
SpecObserve == InitObserve /\ [][NextObserve]_vars

\* ---- re-insertion
\* The page takes an element that has an open shadow root out of its parent and
\* appends it there again.  shadowObservers is kept as the code keeps it: one entry
\* per MutationObserver created, naming the root it observes.
RECURSIVE Listed(_)
Listed(roots) ==
  IF roots = {} THEN <<>>
  ELSE LET r == CHOOSE x \in roots : \A y \in roots : x <= y
       IN <<r>> \o Listed(roots \ {r})
RECURSIVE Copies(_, _)
Copies(k, seq) == IF k = 0 THEN <<>> ELSE seq \o Copies(k - 1, seq)
ObserversOn(root) == Len(SelectSeq(shadowObservers, LAMBDA r : r = root))

\* startRecording(): findAndAttachToShadowRoots(document), then setupMainObserver()
ReinsertStart ==
  /\ ~isRecording
  /\ Commit([CS EXCEPT !.isRecording = TRUE,
                       !.pendingInput = IF variant = 2 THEN NoNode ELSE @],
            Event("START_RECORDING", NoNode, ""))
  /\ listeners' = listeners \cup ShadowRootsBelow({DOC})
  /\ observers' = observers \cup ShadowRootsBelow({DOC})
  /\ shadowObservers' = shadowObservers \o Listed(ShadowRootsBelow({DOC}) \ {DOC}) \o <<DOC>>
  /\ Len(shadowObservers') <= MaxObservers
  /\ UNCHANGED <<variant, dom, frames, target, result, wire, tab, panel, bgvars, value, checked,
                 now>>

\* stopRecording(): shadowObservers.forEach(obs => obs.disconnect()); shadowObservers = []
ReinsertStop ==
  /\ isRecording
  /\ Commit(IF variant = 1
            THEN [CS EXCEPT !.isRecording = FALSE, !.isAssertionMode = FALSE]
            ELSE [Run(CS, <<FlushCall>>) EXCEPT !.isRecording = FALSE],
            Event("STOP_RECORDING", NoNode, ""))
  /\ listeners' = listeners \ {DOC}
  /\ observers' = {}
  /\ shadowObservers' = <<>>
  /\ UNCHANGED <<variant, dom, frames, target, result, wire, tab, panel, bgvars, value, checked,
                 now>>

\* the page re-inserts element e: every observer on the root that holds e runs its
\* callback with e as the added node, and each callback observes what it finds
Reinsert ==
  /\ \E e \in {n \in Nodes : dom[n].shadow = "open"} :
     \E root \in {GetRootNode(e)} :
     \E found \in {addedNodes({shadowObservers[i] : i \in 1..Len(shadowObservers)},
                              isRecording, root, e)} :
       /\ listeners' = listeners \cup (IF ObserversOn(root) > 0 THEN found ELSE {})
       /\ observers' = observers \cup (IF ObserversOn(root) > 0 THEN found ELSE {})
       /\ shadowObservers' = shadowObservers \o Copies(ObserversOn(root), Listed(found))
       /\ Commit(CS, Event("reinsert", e, ""))
  /\ Len(shadowObservers') <= MaxObservers
  /\ UNCHANGED <<variant, dom, frames, target, result, wire, tab, panel, bgvars, value, checked,
                 now>>

\* <body> <x-a> #shadow-root: <x-b> #shadow-root: <x-c> #shadow-root </x-c> </x-b> </x-a>
\*        <x-d> #shadow-root </x-d>  <x-e> #shadow-root(closed) </x-e> </body>
ReinsertPage ==
  <<Node(DOC, "html", NoAttrs, "", "", "none"),
    Node(1, "body", NoAttrs, "", "", "none"),
    Node(2, "x-a", NoAttrs, "", "", "open"),
    Node(SR(3), "x-b", NoAttrs, "", "", "open"),
    Node(SR(4), "x-c", NoAttrs, "", "", "open"),
    Node(2, "x-d", NoAttrs, "", "", "open"),
    Node(2, "x-e", NoAttrs, "", "", "closed")>>
InitReinsert ==
  /\ variant \in {1, 2}
  /\ dom = ReinsertPage
  /\ value = [i \in 1..Len(ReinsertPage) |-> Undefined]
  /\ frames = <<>>
  /\ target = NoNode
  /\ result = NullXP
  /\ InitScript
NextReinsert == ReinsertStart \/ ReinsertStop \/ Reinsert
SpecReinsert == InitReinsert /\ [][NextReinsert]_vars

\* ------------------------------------------------ locator specification
\* The pages on which locators are generated: an element E and a twin of the same
\* tag elsewhere in the document; E carries at most MaxAttrs of the attributes
\* that generateXPath reads, and the twin repeats some of E's values.
\*   flat    : <body> E T </body>
\*   shadow  : <body> <x-host> #shadow-root: E </x-host> T </body>
\*   anchored: <body> <div id=box> E </div> <div id=box> T </div> </body>
Long49 == "aaaaaaaaaabbbbbbbbbbccccccccccddddddddddeeeeeeeee"
Long50 == "aaaaaaaaaabbbbbbbbbbccccccccccddddddddddeeeeeeeeee"
Long39 == "aaaaaaaaaabbbbbbbbbbccccccccccddddddddd"
Long40 == "aaaaaaaaaabbbbbbbbbbccccccccccdddddddddd"
AttrValues(a) ==
  CASE a = "id" -> {"main", "react-1", "1st"}
    [] a = "aria-label" -> {"Close", Long49, Long50, "say \"hi\""}
    [] OTHER -> {"v"}
Texts == {"", "Go", Long39, Long40, "Line1\nLine2"}
AllValues == UNION {AttrValues(a) : a \in AttrNames}
AttrSets ==
  UNION {{[a \in AttrNames |-> IF a \in A THEN f[a] ELSE ""] :
            f \in {g \in [A -> AllValues] : \A a \in A : g[a] \in AttrValues(a)}} :
         A \in {B \in SUBSET AttrNames : Cardinality(B) <= MaxAttrs}}
TwinsOf(f) ==
  {[a \in AttrNames |-> IF a \in D THEN f[a] ELSE ""] :
     D \in SUBSET {a \in AttrNames : f[a] # ""}}
TypeOf(tag) == IF tag = "input" THEN "text" ELSE IF tag = "button" THEN "submit" ELSE ""
XPage(shape, tag, attrsE, textE, attrsT, textT) ==
  LET html == Node(DOC, "html", NoAttrs, "", "", "none")
      body == Node(1, "body", NoAttrs, "", "", "none")
      E(parent) == Node(parent, tag, attrsE, textE, TypeOf(tag), "none")
      T(parent) == Node(parent, tag, attrsT, textT, TypeOf(tag), "none")
  IN CASE shape = "flat" -> <<html, body, E(2), T(2)>>
       [] shape = "shadow" ->
            <<html, body, Node(2, "x-host", NoAttrs, "", "", "open"), E(SR(3)), T(2)>>
       [] shape = "anchored" ->
            <<html, body, Node(2, "div", With("id", "box"), "", "", "none"), E(3),
              Node(2, "div", With("id", "box"), "", "", "none"), T(5)>>

InitXPath ==
  /\ variant \in {1, 2}
  /\ \E shape \in {"flat", "shadow", "anchored"} : \E tag \in {"button", "input"} :
     \E attrsE \in AttrSets : \E attrsT \in TwinsOf(attrsE) :
     \E textE \in (IF tag = "button" THEN Texts ELSE {""}) : \E textT \in {"", textE} :
       /\ dom = XPage(shape, tag, attrsE, textE, attrsT, textT)
       /\ value = [n \in DOMAIN dom |-> IF dom[n].tag \in {"button", "input"} THEN ""
                                         ELSE Undefined]
  /\ frames = <<>>
  /\ target = NoNode
  /\ result = NullXP
  /\ InitScript

\* generateXPath(element) on an element of the page
Locate ==
  /\ ev.kind = "load"
  /\ \E e \in Nodes :
       /\ target' = e
       /\ result' = generateXPath(variant, e)
       /\ ev' = Event("generateXPath", e, "")
  /\ UNCHANGED <<variant, dom, value, frames, isRecording, isAssertionMode, assertionType,
                 pendingInput, lastAction, lastActionTime, listeners, now, out, threw,
                 checked, lastSent, calls, observers, wire, tab, shadowObservers, panel, bgvars>>

SpecXPath == InitXPath /\ [][Locate]_vars

\* the locator functions called twice on the same element of an unchanged page; the
\* pages are those of SpecXPath on which no element carries two attributes
InitTwice ==
  /\ InitXPath
  /\ \A n \in DOMAIN dom : Cardinality({a \in AttrNames : dom[n].attrs[a] # ""}) <= 1

\* generateXPath(element) again, on the element of the first call
Relocate ==
  /\ ev.kind = "generateXPath" /\ ev.arg = ""
  /\ result' = generateXPath(variant, target)
  /\ ev' = Event("generateXPath", target, "again")
  /\ UNCHANGED <<variant, dom, value, frames, isRecording, isAssertionMode, assertionType,
                 pendingInput, lastAction, lastActionTime, listeners, now, out, threw,
                 checked, lastSent, calls, target, observers, wire, tab, shadowObservers,
                 panel, bgvars>>

\* generateFullXPath(element), and generateFullXPath(element) again
FullLocate ==
  /\ ev.kind = "generateXPath" /\ ev.arg = "again"
  /\ result' = generateFullXPath(target)
  /\ ev' = Event("generateFullXPath", target, "")
  /\ UNCHANGED <<variant, dom, value, frames, isRecording, isAssertionMode, assertionType,
                 pendingInput, lastAction, lastActionTime, listeners, now, out, threw,
                 checked, lastSent, calls, target, observers, wire, tab, shadowObservers,
                 panel, bgvars>>
FullRelocate ==
  /\ ev.kind = "generateFullXPath" /\ ev.arg = ""
  /\ result' = generateFullXPath(target)
  /\ ev' = Event("generateFullXPath", target, "again")
  /\ UNCHANGED <<variant, dom, value, frames, isRecording, isAssertionMode, assertionType,
                 pendingInput, lastAction, lastActionTime, listeners, now, out, threw,
                 checked, lastSent, calls, target, observers, wire, tab, shadowObservers,
                 panel, bgvars>>

NextTwice == Locate \/ Relocate \/ FullLocate \/ FullRelocate
SpecTwice == InitTwice /\ [][NextTwice]_vars

\* --------------------------------------------- shadow path specification
\* A chain of n nested shadow hosts, each with its own tag, a mode and maybe an id:
\*   <body> <x-a> #shadow-root: <x-b> #shadow-root: ... <button>Buy</button>
\* The hosts are elements 3 .. n+2, outermost first; the button is element n+3.
HostTags == <<"x-a", "x-b", "x-c", "x-d", "x-e">>
ShadowChain(n, modes, ids) ==
  [k \in 1..(n + 3) |->
     IF k = 1 THEN Node(DOC, "html", NoAttrs, "", "", "none")
     ELSE IF k = 2 THEN Node(1, "body", NoAttrs, "", "", "none")
     ELSE LET parent == IF k = 3 THEN 2 ELSE SR(k - 1) IN
          IF k = n + 3 THEN Node(parent, "button", NoAttrs, "Buy", "submit", "none")
          ELSE Node(parent, HostTags[k - 2], With("id", ids[k - 2]), "", "", modes[k - 2])]

InitShadow ==
  /\ variant \in {1, 2}
  /\ \E n \in 0..MaxShadowDepth :
     \E modes \in [1..n -> {"open", "closed"}] : \E ids \in [1..n -> {"", "h"}] :
       /\ dom = ShadowChain(n, modes, ids)
       /\ value = [k \in 1..(n + 3) |-> IF k = n + 3 THEN "" ELSE Undefined]
  /\ frames = <<>>
  /\ target = NoNode
  /\ result = <<>>
  /\ InitScript

\* getShadowPath(element) on an element of the page
ShadowPath ==
  /\ ev.kind = "load"
  /\ \E e \in Nodes :
       /\ target' = e
       /\ result' = getShadowPath(variant, e)
       /\ ev' = Event("getShadowPath", e, "")
  /\ UNCHANGED <<variant, dom, value, frames, isRecording, isAssertionMode, assertionType,
                 pendingInput, lastAction, lastActionTime, listeners, now, out, threw,
                 checked, lastSent, calls, observers, wire, tab, shadowObservers, panel, bgvars>>

SpecShadow == InitShadow /\ [][ShadowPath]_vars

\* ----------------------------------------------- frame path specification
\* The script's window sits below Len(frames) frame elements.  Level k (1 is the
\* script's own frame element) is named FrameNames[k]; at most one level is out of
\* the ordinary: its element is not found in the parent document ("hidden"), or
\* the parent document cannot be read ("blocked").
FrameNames == <<"f1", "f2", "f3", "f4", "f5", "f6", "f7", "f8", "f9", "f10", "f11",
                "f12", "f13">>
FrameLevel(k, kind) ==
  [access |-> IF kind = "blocked" THEN "blocked" ELSE "ok",
   found |-> kind = "ok",
   index |-> k % 2,
   name |-> FrameNames[k], id |-> Null, src |-> Null]
FrameChain(d, odd, kind) ==
  [k \in 1..d |-> FrameLevel(k, IF k = odd THEN kind ELSE "ok")]

InitFrames ==
  /\ variant \in {1, 2}
  /\ \E d \in 0..MaxFrameDepth : \E odd \in 0..d : \E kind \in {"hidden", "blocked"} :
       frames = FrameChain(d, odd, kind)
  /\ dom = <<Node(DOC, "html", NoAttrs, "", "", "none"),
             Node(1, "body", NoAttrs, "", "", "none"),
             Node(2, "button", NoAttrs, "OK", "submit", "none")>>
  /\ value = <<Undefined, Undefined, "">>
  /\ target = NoNode
  /\ result = <<>>
  /\ InitScript

\* getIframePath() in the script's window
FramePath ==
  /\ ev.kind = "load"
  /\ result' = getIframePath(variant)
  /\ ev' = Event("getIframePath", NoNode, "")
  /\ UNCHANGED <<variant, dom, value, frames, isRecording, isAssertionMode, assertionType,
                 pendingInput, lastAction, lastActionTime, listeners, now, out, threw,
                 checked, lastSent, calls, target, observers, wire, tab, shadowObservers,
                 panel, bgvars>>

\* the script of a framed window also records: a click on the frame's button
NextFrames == FramePath \/ StartRecording \/ Click
SpecFrames == InitFrames /\ [][NextFrames]_vars

\* ------------------------------------------------------------ properties
\* the Actions the last step sent, in order
Emitted(o) == SelectSeq(o, LAMBDA m : m.type = "ACTION_RECORDED")
EmittedOf(o, type) == SelectSeq(o, LAMBDA m : m.type = "ACTION_RECORDED" /\ m.action.type = type)
EmittedFor(o, type, e) ==
  SelectSeq(o, LAMBDA m : m.type = "ACTION_RECORDED" /\ m.action.type = type
                          /\ m.action.node = e)
Passwords == {"pw1", "pw2"}

\* C1: an input Action recorded on a password field holds the typed password
\* nowhere: not in value, not in the element snapshot, not in the description.
C1_PasswordNeverRaw ==
  \A i \in 1..Len(out) :
    (out[i].type = "ACTION_RECORDED" /\ out[i].action.type = "input"
       /\ dom[out[i].action.node].type = "password")
    => LET a == out[i].action IN
       /\ a.value \notin Passwords
       /\ a.element.value \notin Passwords
       /\ \A k \in 1..Len(a.description) : a.description[k] \notin Passwords

\* C2: a stop command that arrives while recording with a text input pending
\* makes the script emit an input Action for the pending field, and leaves the
\* pending buffer empty.
C2_StopFlushesPending ==
  [][(StopRecording /\ isRecording /\ pendingInput # NoNode)
       => /\ Len(EmittedFor(out', "input", pendingInput)) >= 1
          /\ pendingInput' = NoNode]_vars

\* C3: dedup law.  When recordAction handles an event whose kind and primary
\* locator equal those of the Action emitted last, it emits nothing and changes
\* nothing if less than 300 ms have passed since that Action, and emits one
\* Action if 300 ms or more have passed.
C3_DedupLaw ==
  \A i \in 1..Len(calls) :
    LET c == calls[i] IN
    (c.prev.type = c.type /\ c.prev.xpath = c.xpath)
    => /\ (c.time - c.prev.time < DedupWindow) => (c.sent = 0 /\ c.same)
       /\ (c.time - c.prev.time >= DedupWindow) => c.sent = 1
\* an event repeated 299 ms after the Action it repeats was dropped
C3_Witness ==
  \E i \in 1..Len(calls) :
    /\ calls[i].prev.type = calls[i].type /\ calls[i].prev.xpath = calls[i].xpath
    /\ calls[i].time - calls[i].prev.time = DedupWindow - 1
    /\ calls[i].sent = 0

\* C4: an input event on an INPUT/TEXTAREA emits no Action and only sets the
\* pending buffer; the commit trigger that ends a focus session on a field (blur,
\* Enter, Tab or stop) emits exactly one input Action for that field.
C4_OneInputPerSession ==
  [][/\ (Input /\ isRecording) => (Len(Emitted(out')) = 0 /\ pendingInput' # NoNode)
     /\ ((StopRecording \/ Keydown \/ FocusOut) /\ isRecording /\ pendingInput # NoNode
           /\ ev'.node \in {NoNode, pendingInput})
         => Len(EmittedFor(out', "input", pendingInput)) = 1]_vars

\* C5: while recording in assertion mode, a click on a page element emits exactly
\* one assertion Action and no click Action, and assertion mode is off once the
\* event has been handled.
C5_ClickBecomesAssertion ==
  [][(Click /\ isRecording /\ isAssertionMode)
       => /\ Len(EmittedOf(out', "assertion")) = 1
          /\ Len(EmittedOf(out', "click")) = 0
          /\ ~isAssertionMode']_vars

\* C6: assertion mode is a sub-state of recording: in every reachable state,
\* isAssertionMode implies isRecording.
C6_AssertionWithinRecording == isAssertionMode => isRecording

\* C7: uniqueness.  Every non-null primary locator, evaluated against the owning
\* document at capture time, selects exactly one node, and that node is the
\* element the locator was generated for.
C7_LocatorUnique ==
  \A i \in 1..Len(out) :
    (out[i].type = "ACTION_RECORDED" /\ out[i].action.xpath # NullXP)
    => /\ ~EvaluateThrows(out[i].action.xpath)
       /\ Evaluate(out[i].action.xpath) = {out[i].action.node}

\* C8: the first script's generateXPath returns the first candidate, in the order
\* id, data-testid, data-test-id, data-cy, data-test, data-automation-id,
\* data-e2e, name, aria-label (< 50 chars), button/link text (< 40 chars, one
\* line), placeholder, that is present and uniquely resolves to the element, and
\* the relative path only if none does.
Priority == <<"id", "data-testid", "data-test-id", "data-cy", "data-test",
              "data-automation-id", "data-e2e", "name", "aria-label", "text",
              "placeholder">>
Offered(e, c) ==
  CASE c = "id" -> ElemId(e) # "" /\ ElemId(e) \notin (FrameworkIds \cup DigitIds)
    [] c = "name" -> NameProp(e) # ""
    [] c = "aria-label" -> Attr(e, c) # "" /\ Len(Attr(e, c)) < 50
    [] c = "text" -> /\ TagName(e) \in {"button", "a"}
                     /\ TextContent(e) # "" /\ Len(TextContent(e)) < 40
                     /\ TextContent(e) \notin MultiLineStrings
    [] c = "placeholder" -> PlaceholderProp(e) # ""
    [] OTHER -> Attr(e, c) # ""
Expression(e, c) ==
  IF c = "text" THEN XP("text", TagName(e), "", escapeXPathString(TextContent(e)), <<>>)
  ELSE XP("attr", TagName(e), c,
          IF c \in {"aria-label", "placeholder"} THEN escapeXPathString(Attr(e, c))
          ELSE Attr(e, c), <<>>)
Resolves(e, c) ==
  /\ Offered(e, c)
  /\ ~EvaluateThrows(Expression(e, c))
  /\ Evaluate(Expression(e, c)) = {e}
RECURSIVE HostsAbove(_)
HostsAbove(e) ==
  IF IsShadowRoot(GetRootNode(e))
  THEN Append(HostsAbove(HostOf(GetRootNode(e))), HostOf(GetRootNode(e)))
  ELSE <<>>
C9_ShadowPathOrder ==
  ev.kind = "getShadowPath"
  => LET hosts == HostsAbove(target) IN
     (\A i \in 1..Len(hosts) : dom[hosts[i]].shadow = "open")
     => /\ Len(result) = Len(hosts)
        /\ \A i \in 1..Len(hosts) :
             result[i].hostTag = TagName(hosts[i]) /\ result[i].hostId = ElemId(hosts[i])
\* the path of a button three open shadow roots deep
C9_Witness ==
  /\ ev.kind = "getShadowPath"
  /\ Len(HostsAbove(target)) = 3
  /\ \A i \in 1..3 : dom[HostsAbove(target)[i]].shadow = "open"
  /\ Len(result) = 3

\* C10: the frame context is ordered outermost frame first, innermost last, has
\* one descriptor per same-origin frame level between the element's window and
\* the top window, and is null in the top-level document.
\* the levels whose parent document the script can read: those below the first
\* blocked one
SameOriginLevels ==
  LET blocked == {k \in 1..Len(frames) : frames[k].access = "blocked"} IN
  IF blocked = {} THEN Len(frames)
  ELSE (CHOOSE k \in blocked : \A j \in blocked : k <= j) - 1
Describes(d, k) ==
  IF frames[k].found THEN ~d.crossOrigin /\ d.name = frames[k].name
  ELSE /\ d.index = k - 1 /\ d.message = ""
       /\ IF variant = 1 THEN d.crossOrigin ELSE d.name = frames[k].name
\* the last n descriptors of the path describe levels n .. 1, in that order
InnermostLast(n) ==
  /\ Len(result) >= n
  /\ \A k \in 1..n : Describes(result[Len(result) - k + 1], k)
BoundaryMessages == {"Cross-origin boundary", "Cross-origin frame boundary"}
Sentinels == Len(SelectSeq(result, LAMBDA d : d.message \in BoundaryMessages))
Walked == IF variant = 1 /\ Len(frames) > LevelCap THEN LevelCap ELSE Len(frames)
FirstBlocked ==
  LET blocked == {k \in 1..Len(frames) : frames[k].access = "blocked"} IN
  IF blocked = {} THEN 0 ELSE CHOOSE k \in blocked : \A j \in blocked : k <= j
\* the walk gets as far as the blocked level
BoundaryReached == FirstBlocked > 0 /\ (variant = 2 \/ FirstBlocked <= LevelCap)
StopsAtBoundary(path) ==
  /\ Len(path) = FirstBlocked
  /\ path[1].crossOrigin /\ path[1].message \in BoundaryMessages
  /\ \A i \in 2..Len(path) :
       path[i].message \notin BoundaryMessages /\ Describes(path[i], FirstBlocked - i + 1)
C11_BoundarySentinel ==
  BoundaryReached
  => /\ ev.kind = "getIframePath" => StopsAtBoundary(result)
     /\ (ev.kind = "click" /\ isRecording)
        => /\ ~threw
           /\ (calls # <<>> /\ calls[1].prev = NoSent)
              => /\ Len(Emitted(out)) = 1
                 /\ StopsAtBoundary(out[1].action.iframe)
\* a click in a window whose third level up is blocked, with more levels above
C11_Witness ==
  /\ ev.kind = "click" /\ isRecording /\ BoundaryReached
  /\ FirstBlocked = 3 /\ Len(frames) > 4
  /\ Len(Emitted(out)) = 1 /\ Len(out[1].action.iframe) = 3

\* C12: within one recording session, from the start command to the next stop
\* command, currentRecording.actions is append-only: every step leaves the list as
\* it is or appends one element at its end.  The reset by which a start command
\* begins its session counts as the start when nothing was recorded since the
\* command came.
AppendsOne(old, new) == Len(new) = Len(old) + 1 /\ SubSeq(new, 1, Len(old)) = old
FreshReset ==
  /\ tasks.start.pc = "get" /\ tasks'.start.pc = "idle"
  /\ tasks.start.ref = background.currentRecording.actions
  /\ tasks.start.len = Len(currentActions)
  /\ currentActions' = <<>>
C12_AppendOnly ==
  [][(background.isRecording /\ background'.isRecording)
       => \/ currentActions' = currentActions
          \/ AppendsOne(currentActions, currentActions')
          \/ FreshReset]_vars

\* C13: once stopRecording has sealed a Recording, the action list of that
\* Recording is never changed by a later message handled by the service worker.
C13_SealedNeverChanged ==
  [][\A ref \in sealed : heap'[ref] = heap[ref]]_vars

\* C14: after the stop command has been handled in state Recording, no capture
\* listener remains attached to any root that received one (the document and
\* every discovered shadow root), and every structural observer is disconnected:
\* the observer set is empty.
C14_StopDetachesAll ==
  [][(StopRecording /\ isRecording) => (listeners' = {} /\ observers' = {})]_vars

\* C15: while recording, every open shadow root of an element added to an observed
\* root, as the added node itself or anywhere inside the added subtree, carries
\* the capture listeners and is under observation, and so is every open shadow
\* root nested in it: the observed roots are closed under "open shadow root of an
\* element in the tree".
C15_NewShadowRootsObserved ==
  (isRecording /\ ev.kind = "insert")
  => /\ ShadowRootsBelow(observers) \subseteq observers
     /\ ShadowRootsBelow(observers) \subseteq listeners

\* C16: a content script emits no ACTION_RECORDED message for a DOM event it
\* handles while it is not recording, and none for an event whose target element
\* is null; in both cases the event leaves the script's state unchanged.
ScriptState == <<isRecording, isAssertionMode, assertionType, pendingInput, lastAction,
                 lastActionTime>>
C16_NothingWithoutTarget ==
  [][(ev'.kind \in EventKinds /\ (~isRecording \/ ev'.node = NoNode))
       => (Len(Emitted(out')) = 0 /\ ScriptState' = ScriptState)]_vars

\* C20: pending text input is buffered per element: when an input event on field B
\* arrives while the input on another field A waits for its commit, the input on A
\* is not lost: A is still buffered after the event, or its input Action has been
\* emitted.
C20_PerElementBuffer ==
  [][(Input /\ isRecording /\ pendingInput # NoNode
        /\ ev'.kind = "input" /\ ev'.node # pendingInput /\ pendingInput' # NoNode)
       => \/ pendingInput' = pendingInput
          \/ Len(EmittedFor(out', "input", pendingInput)) >= 1]_vars

\* C17: when delivery of an ACTION_RECORDED message fails, the same Action is sent
\* again at most once, and only after a status query has answered that recording
\* is still active; the failure does not throw, and it changes none of
\* isRecording, isAssertionMode and the pending input.
C17_RetryAtMostOnce ==
  [][/\ \A i \in 1..Len(wire') :
          /\ wire'[i].sent <= 2
          /\ wire'[i].sent = 2 => wire'[i].confirmed
     /\ ev'.kind \in {"rejected", "status"}
        => /\ ~threw'
           /\ <<isRecording, isAssertionMode, pendingInput>>'
                = <<isRecording, isAssertionMode, pendingInput>>]_vars
\* an Action of the second script that was sent again after its delivery failed,
\* with an input still pending
C17_Witness ==
  /\ pendingInput # NoNode
  /\ \E i \in 1..Len(wire) : wire[i].sent = 2 /\ wire[i].confirmed

\* C18: each captured assertion causes exactly one ACTION_RECORDED message of type
\* assertion followed at once by exactly one ASSERTION_COMPLETE message, and no
\* ASSERTION_COMPLETE is sent without an assertion Action right before it.
IsAssertion(m) == m.type = "ACTION_RECORDED" /\ m.action.type = "assertion"
C18_AssertionThenComplete ==
  \A i \in 1..Len(out) :
    /\ IsAssertion(out[i])
       => /\ i < Len(out) /\ out[i + 1].type = "ASSERTION_COMPLETE"
          /\ \A j \in 1..Len(out) : IsAssertion(out[j]) => j = i
    /\ out[i].type = "ASSERTION_COMPLETE" => (i > 1 /\ IsAssertion(out[i - 1]))
\* an assertion captured on a shadow host, by the click that also went on to the
\* shadow root's listener
C18_Witness ==
  /\ ev.kind = "click" /\ Len(out) = 3
  /\ IsAssertion(out[1]) /\ out[2].type = "ASSERTION_COMPLETE"

\* C19: a click on a light-DOM <button id="submit">Go</button> in the top-level
\* document, while the first script records and is not in assertion mode, reaches
\* recordAction once and, unless the dedup law drops it, emits exactly one Action
\* of type click, with xpath //button[@id="submit"], element.tag button, iframe
\* null and shadow null.
\* the expression as the code writes it, for a single-attribute locator
Render(xp) == "//" \o xp.tag \o "[@" \o xp.attr \o "=\"" \o xp.val \o "\"]"
IsSubmitButton(e) ==
  /\ e \in Nodes /\ TagName(e) = "button" /\ ElemId(e) = "submit"
  /\ TextContent(e) = "Go" /\ InDocument(e) /\ frames = <<>>
\* the call is not a repeat of the Action the script remembers, inside the window
\* (a pending input is flushed first and then is the Action remembered)
Fresh(c) ==
  ~(/\ pendingInput = NoNode
    /\ lastAction.type = c.type /\ lastAction.xpath = c.xpath
    /\ c.time - lastActionTime < DedupWindow)
C21_FinalValue ==
  \A i \in 1..Len(out) :
    (/\ out[i].type = "ACTION_RECORDED" /\ out[i].action.type = "input"
     /\ dom[out[i].action.node].type # "password")
    => out[i].action.value = value[out[i].action.node]

\* C22: getElementValue returns the first of these that applies: (1) the
\* element's own non-empty value; (2) for a shadow host, the value or the text of
\* an input, textarea or content-editable descendant inside its shadow root; (3) for
\* a tag name with a hyphen, the value of a nested light-DOM input or textarea;
\* (4) for a content-editable element, its text content; (5) otherwise null.
\* what a field inside the shadow root holds: its value, or its text
Holds(d) == IF Truthy(d) THEN value[d] ELSE TextContent(d)
ShadowFields(e) ==
  IF OpenShadowRoot(e) = NoNode THEN {}
  ELSE {d \in InTree(SR(e)) :
          (TagName(d) \in {"input", "textarea"} \/ IsEditable(d)) /\ Holds(d) # ""}
NestedField(e) ==
  IF TagName(e) \notin HyphenTags THEN NoNode
  ELSE First({n \in Nodes : IsDescendant(n, e) /\ TagName(n) \in {"input", "textarea"}})
C22_ResolutionOrder ==
  ev.kind = "getElementValue"
  => LET e == target IN
     IF value[e] \notin {Undefined, ""} THEN result.s = value[e]
     ELSE IF ShadowFields(e) # {} THEN result.s \in {Holds(d) : d \in ShadowFields(e)}
     ELSE IF NestedField(e) # NoNode /\ Truthy(NestedField(e))
          THEN result.s = value[NestedField(e)]
     ELSE IF IsEditable(e) THEN result.s = TextContent(e)
     ELSE result.s = Null

\* C23: an id that starts with a digit or with one of the markers ember, react,
\* ng-, : is never used in the locator generateXPath returns, neither as the
\* element's own id predicate nor as the anchor of a relative path.
Autogenerated(id) == id \in FrameworkIds \cup DigitIds
C23_NoAutogeneratedId ==
  ev.kind = "generateXPath"
  => ~(result.kind \in {"attr", "rel"} /\ result.attr = "id" /\ Autogenerated(result.val))

\* C24: a recordAction call whose locator is the fallback (no candidate resolved
\* uniquely) and that the dedup test does not drop emits its Action, and every
\* Action emitted carries the full path of its element, computed from the element
\* alone.
C24_FallbackStillEmits ==
  [][/\ \A i \in 1..Len(calls') :
          (calls'[i].xpath.kind = "rel" /\ Fresh(calls'[i])) => calls'[i].sent = 1
     /\ \A j \in 1..Len(out') :
          out'[j].type = "ACTION_RECORDED"
          => /\ out'[j].action.fullXPath.kind = "full"
             /\ out'[j].action.fullXPath.steps # <<>>
             /\ out'[j].action.fullXPath = generateFullXPath(out'[j].action.node)]_vars
\* the click Action of the button inside the shadow root, which no candidate and
\* not even the fallback locates
C24_Witness ==
  \E j \in 1..Len(out) :
    /\ out[j].type = "ACTION_RECORDED" /\ out[j].action.type = "click"
    /\ out[j].action.xpath.kind = "rel"
    /\ ~isUniqueXPath(out[j].action.xpath, out[j].action.node)
    /\ out[j].action.fullXPath.steps # <<>>

\* C25: a failure while one event is handled (an exception while the Action is put
\* together, a rejected send) leaves the script recording, with its listeners and
\* its state as they were and nothing sent by the failed handler; the click that
\* follows the failure emits its Action (an assertion in assertion mode, else the
\* click unless the dedup law drops it), provided it does not fail itself; and every
\* Action emitted has all its locator fields, as assembled from its element.
Failed(kind, exception) == exception \/ kind = "rejected"
Modes == <<isRecording, isAssertionMode, assertionType, pendingInput>>
C25_FailureNotFatal ==
  [][/\ Failed(ev'.kind, threw')
        => /\ isRecording /\ Modes' = Modes /\ listeners' = listeners
           /\ Len(Emitted(out')) = 0
     /\ threw' => <<lastAction, lastActionTime>>' = <<lastAction, lastActionTime>>
     /\ (Failed(ev.kind, threw) /\ ev'.kind = "click" /\ ~threw')
        => IF isAssertionMode THEN Len(EmittedOf(out', "assertion")) = 1
           ELSE /\ Len(calls') >= 1
                /\ \A i \in 1..Len(calls') : Fresh(calls'[i]) => calls'[i].sent = 1
     /\ \A j \in 1..Len(out') :
          out'[j].type = "ACTION_RECORDED"
          => LET a == out'[j].action
                 c == Capture(variant, a.node)
             IN /\ a.xpath = c.xpath /\ a.xpath # NullXP
                /\ a.fullXPath = c.fullXPath
                /\ a.element = c.element
                /\ a.iframe = c.iframe
                /\ a.shadow = c.shadow]_vars
\* the text assertion on <li value=3> has ended with an exception: nothing was
\* sent, and the script still records, in assertion mode, with its listeners on
C25_Witness ==
  /\ threw /\ ev.kind = "click" /\ TagName(ev.node) = "li"
  /\ Len(out) = 0 /\ isRecording /\ isAssertionMode /\ DOC \in listeners

\* C26: generateXPath, and generateFullXPath, called a second time on the same
\* element of an unchanged document returns what the first call returned, and no
\* call changes the recorder's state.
LocatorCalls == {"generateXPath", "generateFullXPath"}
First200(str) == IF Len(str) <= 200 THEN str ELSE SubSeq(str, 1, 200)
C28_OnlyConsecutive ==
  \A i \in 1..Len(calls) :
    calls[i].sent = 0
    => /\ calls[i].prev.type = calls[i].type
       /\ calls[i].prev.xpath = calls[i].xpath
       /\ calls[i].time - calls[i].prev.time < DedupWindow

\* C29: in a tab with several frames, after an ENTER_ASSERTION_MODE command has
\* reached the tab, at most one assertion Action is recorded across the frames
\* before the next such command, and once that assertion is recorded no frame is in
\* assertion mode.
C29_OneAssertionPerCommand ==
  /\ tab.assertions <= 1
  /\ tab.assertions >= 1 => (~isAssertionMode /\ ~tab.peer.isAssertionMode)

\* C30: once stopRecording of the service worker has returned and the content
\* script has handled STOP_RECORDING, every ACTION_RECORDED message the script sent
\* during the session (the input committed by the stop included) that has been
\* handled is in the sealed Recording: for each kind of Action, the Recording holds
\* as many entries as the script sent messages.
Count(seq, type) == Len(SelectSeq(seq, LAMBDA x : x.type = type))
SentActions == [i \in 1..Len(wire) |-> wire[i].action]
SessionOver ==
  /\ tasks.stop.pc = "idle" /\ sealed # {} /\ ~isRecording
  /\ \A i \in 1..Len(wire) : wire[i].stage # "sent"
C30_NothingLost ==
  SessionOver
  => \A ref \in sealed : \A type \in {"click", "input", "assertion"} :
       Count(heap[ref], type) = Count(SentActions, type)

\* C31: an Action that the service worker accepted (isRecording was true when its
\* ACTION_RECORDED was handled) is in the Recording that the next stop seals,
\* whether or not a START_RECORDING was handled while the session was active and
\* whether or not startRecording was suspended at an await when the message came.
\* Checked at the first stop of a run: every Action accepted up to then is in the
\* action list of the Recording it seals.
AcceptedActions == {wire[i].action : i \in {j \in 1..Len(wire) : wire[j].stage = "pushed"}}
InList(action, list) == \E k \in 1..Len(list) : list[k] = action
C31_AcceptedIsSealed ==
  [][(sealed = {} /\ sealed' # {})
       => \A ref \in sealed' : \A action \in AcceptedActions : InList(action, heap'[ref])]_vars

\* C32: the storage handlers are atomic with respect to each other.  Once every
\* handler of a run has completed, the stored list is what the requests give when
\* they are applied one after the other in some order.
RECURSIVE InSomeOrder(_, _)
InSomeOrder(jobs, recordings) ==
  IF jobs = {} THEN {recordings}
  ELSE UNION {InSomeOrder(jobs \ {i}, StoreApply(recordings, tasks.store[i].request)) :
                i \in jobs}
StoreQuiet ==
  tasks.store # <<>> /\ \A i \in 1..Len(tasks.store) : tasks.store[i].pc = "done"
C32_StorageSerializable ==
  StoreQuiet => storage \in InSomeOrder(1..Len(tasks.store), <<>>)

\* C33: in one frame at most one capture instance is active.  A START_RECORDING
\* handled while the script records changes nothing (no state, no listener, no
\* observer, no message), and one DOM event is recorded at most once: apart from
\* the pending input that the event commits, it leads to at most one
\* ACTION_RECORDED message.  (A repeated injection returns at its first statement
\* and is no step at all.)
OwnActions(o) ==
  SelectSeq(o, LAMBDA m : m.type = "ACTION_RECORDED" /\ m.action.type # "input")
C33_OneCaptureInstance ==
  [][/\ (ev'.kind = "START_RECORDING" /\ isRecording)
          => /\ ScriptState' = ScriptState
             /\ listeners' = listeners /\ observers' = observers
             /\ out' = <<>>
     /\ ev'.kind \in EventKinds => Len(OwnActions(out')) <= 1]_vars

\* C34: the dedup window is anchored at the Action emitted last, not at the event
\* dropped last.  When an event was dropped as a duplicate and a later event of the
\* same kind and locator follows it by less than 300 ms, with no Action emitted in
\* between, the later event is emitted as soon as 300 ms or more have passed since
\* the Action emitted last.
Repeats(i, j) ==
  /\ i < j
  /\ wire[i].sent = 0
  /\ wire[j].type = wire[i].type /\ wire[j].xpath = wire[i].xpath
  /\ wire[j].prev = wire[i].prev
  /\ wire[j].prev.type = wire[j].type /\ wire[j].prev.xpath = wire[j].xpath
  /\ wire[j].time - wire[i].time < DedupWindow
C34_WindowAnchoredAtEmitted ==
  \A i \in 1..Len(wire) : \A j \in 1..Len(wire) :
    (Repeats(i, j) /\ wire[j].time - wire[j].prev.time >= DedupWindow)
    => wire[j].sent = 1
\* an event 1 ms after a dropped one and 300 ms after the emitted one was emitted
C34_Witness ==
  \E i \in 1..Len(wire) : \E j \in 1..Len(wire) :
    /\ Repeats(i, j)
    /\ wire[j].time - wire[j].prev.time >= DedupWindow
    /\ wire[j].sent = 1

\* C35: within one recording session each root (the document and each shadow
\* root) is under observation by at most one structural observer: no two of the
\* observers alive observe the same root.
C35_OneObserverPerRoot ==
  \A i \in 1..Len(shadowObservers) : \A j \in 1..Len(shadowObservers) :
    shadowObservers[i] = shadowObservers[j] => i = j

\* C36: assertion state does not leak across sessions.  Immediately after a start
\* command has taken the content script from Idle to Recording, assertion mode is
\* off, whatever commands came before the start.
C36_StartClearsAssertionMode ==
  [][(ev'.kind = "START_RECORDING" /\ ~isRecording /\ isRecording') => ~isAssertionMode']_vars

\* C37: an explicit EXIT_ASSERTION_MODE in state AssertionPending returns the
\* content script to Recording and sends nothing, neither an Action nor
\* ASSERTION_COMPLETE; the click that follows it is recorded as a normal click: it
\* goes through the dedup test as a click, sends no assertion and no
\* ASSERTION_COMPLETE, and is emitted unless it repeats the Action remembered.
Cancelled(i) ==
  /\ wire[i].kind = "exit"
  /\ wire[i].before.isRecording /\ wire[i].before.isAssertionMode
NormalClick(entry) ==
  /\ \A k \in 1..Len(entry.out) :
       /\ entry.out[k].type = "ACTION_RECORDED"
       /\ entry.out[k].action.type \in {"click", "input"}
  /\ Len(entry.calls) >= 1
  /\ \A k \in 1..Len(entry.calls) : entry.calls[k].type \in {"click", "input"}
  /\ \E k \in 1..Len(entry.calls) : entry.calls[k].type = "click"
  /\ (entry.before.lastAction.type # "click" /\ entry.before.pendingInput = NoNode)
     => Len(EmittedOf(entry.out, "click")) >= 1
C37_CancelReturnsToRecording ==
  \A i \in 1..Len(wire) :
    Cancelled(i)
    => /\ wire[i].out = <<>>
       /\ wire[i].after.isRecording /\ ~wire[i].after.isAssertionMode
       /\ (i < Len(wire) /\ wire[i + 1].kind = "click" /\ wire[i + 1].before.isRecording)
          => NormalClick(wire[i + 1])
\* an assertion was cancelled and the next click was emitted as a click
C37_Witness ==
  \E i \in 1..Len(wire) :
    /\ Cancelled(i)
    /\ i < Len(wire) /\ wire[i + 1].kind = "click"
    /\ Len(EmittedOf(wire[i + 1].out, "click")) >= 1

\* C38: in the code generated by exportToSeleniumPython and exportToSeleniumJava
\* the driver's frame context at the statement of every exported action is the
\* frame the action was recorded in, and the code ends in the default content.
\* The context after a prefix of the code: a frame switch enters the frame from
\* where the driver is, a switch to the default content returns to the top.
RECURSIVE DriverContext(_, _)
DriverContext(code, n) ==
  IF n = 0 THEN <<>>
  ELSE CASE code[n].kind = "frame" -> Append(DriverContext(code, n - 1), code[n].frame)
         [] code[n].kind = "default" -> <<>>
         [] OTHER -> DriverContext(code, n - 1)
C38_FrameContextMatches ==
  ev.kind \in {"exportToSeleniumPython", "exportToSeleniumJava"}
  => /\ \A n \in 1..Len(result) :
          result[n].kind \in {"action", "assert"}
          => DriverContext(result, n) = target[result[n].index].iframe
     /\ DriverContext(result, Len(result)) = <<>>

\* C39: after the side panel's stopRecording has completed with a successful
\* response, its recordedActions list equals the action list of the Recording the
\* service worker sealed, whatever NEW_ACTION notifications were on their way when
\* the stop was requested.  While the side panel records, its list holds only
\* Actions the service worker appended, in the order in which it appended them and
\* without a gap.
WasAppended(action) == \E ref \in 1..Len(heap) : InList(action, heap[ref])
C39_PanelMatchesRecording ==
  /\ panel.pc = "done"
     => /\ panel.response.ref \in sealed
        /\ panel.recordedActions = heap[panel.response.ref]
  /\ panel.isRecording
     => /\ \A k \in 1..Len(panel.recordedActions) : WasAppended(panel.recordedActions[k])
        /\ \A k \in 1..(Len(panel.recordedActions) - 1) :
             panel.recordedActions[k + 1].n = panel.recordedActions[k].n + 1
\* a stop completed although the side panel had dropped a notification: the list
\* it shows holds an Action that it never got by NEW_ACTION
C39_Witness ==
  /\ panel.pc = "done"
  /\ ev.kind = "STOP_RECORDING"
  /\ panel.dropped >= 1
  /\ Len(panel.recordedActions) = 2

====
